---- MODULE Spec2Model ----
(***************************************************************************)
(* Replication core of the MongoDB -> OpenSearch sync service:             *)
(*   BulkProcessor   (services/bulkProcessor.js,  src/unnamed/part_002)    *)
(*   OpenSearchService.bulkIndex / deleteDocument (src/unnamed/part_000)   *)
(*   SyncService     (second half of src/src/services/documentCountMonitor.js) *)
(*   the SIGTERM/SIGINT handlers of server.js and documentCountMonitor.js  *)
(*                                                                         *)
(* The program is single-threaded JavaScript.  A step of the model is one  *)
(* turn of the event loop: the synchronous code of a callback together     *)
(* with every promise continuation (microtask) it makes runnable.  Steps   *)
(* of different callers interleave only where the code awaits real I/O or  *)
(* a timer.                                                                *)
(***************************************************************************)
EXTENDS Integers, Sequences, FiniteSets, TLC

\* ------------------------------------------------------------------ bounds
batchSize == 2      \* config.sync.batchSize, scaled down from its default 100
maxRetries == 3     \* processBatchWithRetry(batch, maxRetries = 3)
MaxAdded == 3       \* operations handed to the processor in one run
MaxFaults == 3      \* adapter calls that fail as a whole in one run
MaxItemErrs == 1    \* bulk items that come back with an error in one run
MaxStarts == 1      \* start() calls that open a feed in one run
SvcFaults == 1      \* failing adapter calls in a run of the whole service
reconBatch == 1     \* syncDocumentsByIds batchSize, scaled down from 100
fullBatch == 1      \* performFullSync options.batchSize, scaled down from 100
MaxRuns == 1        \* performFullSync runs begun in one run
MaxRequests == 2    \* HTTP requests served in one run
MaxPasses == 2      \* checkAndSync passes begun in one run
MaxCount == 2       \* document counts the count checks read
MaxThreshold == 1   \* auto-sync thresholds that are set
MaxChecks == 2      \* count checks begun in one run
MaxFeedErrs == 2    \* 'error' events of the change stream in one run

\* ------------------------------------------------------------- documents
Ids == {1, 2}
Undef == "undefined"          \* a property the source document does not have
StatusVals == {"a", "b"}

\* A source document: _id, one of the plainly copied fields (status stands
\* for lines 285-327) and one of the "|| null" fields.
Doc(i, s, u) == [_id |-> i, status |-> s, urlFilterUpdatedAt |-> u]
AllDocs == {Doc(i, s, u) : i \in Ids, s \in StatusVals \cup {Undef}, u \in {Undef, "t"}}
\* The documents the modelled change feed carries.
FeedDocs == {Doc(1, "a", Undef), Doc(1, "b", Undef), Doc(1, Undef, Undef),
             Doc(2, "a", Undef)}
DocKey(i) == Doc(i, Undef, Undef)     \* { _id: documentKey._id }

Upsert(d) == [document |-> d, operation |-> "upsert"]
Delete(i) == [document |-> DocKey(i), operation |-> "delete"]

\* ---------------------------------------------------------------- target
Keys == {ToString(i) : i \in Ids}
Missing == "missing"          \* a field the target record does not hold
Absent == [present |-> FALSE, mongo_id |-> Missing, status |-> Missing,
           urlFilterUpdatedAt |-> Missing]
EmptyTarget == [k \in Keys |-> Absent]
TargetDocs == [present : {TRUE}, mongo_id : Keys, status : StatusVals \cup {Missing},
               urlFilterUpdatedAt : {Missing, "null", "t"}]
TargetStates == [Keys -> TargetDocs \cup {Absent}]
\* The index contents bulkIndex and deleteDocument can have left behind: a
\* record sits under the key it names and holds every "|| null" field.
IndexStates ==
  {t \in TargetStates :
     \A k \in Keys : t[k].present =>
        t[k].mongo_id = k /\ t[k].urlFilterUpdatedAt # Missing}

\* The "doc" part of one bulk update action.  JSON serialisation drops a
\* property whose value is undefined, so such a field is not sent at all.
PartialDoc(d) ==
  [mongo_id |-> ToString(d._id),
   status |-> d.status,
   urlFilterUpdatedAt |-> IF d.urlFilterUpdatedAt = Undef THEN "null"
                          ELSE d.urlFilterUpdatedAt]

\* update with doc_as_upsert: merge the sent fields into the record, or
\* create the record from them.
MergeField(old, sent) == IF sent = Undef THEN old ELSE sent
DocAsUpsert(rec, p) ==
  [present |-> TRUE,
   mongo_id |-> MergeField(rec.mongo_id, p.mongo_id),
   status |-> MergeField(rec.status, p.status),
   urlFilterUpdatedAt |-> MergeField(rec.urlFilterUpdatedAt, p.urlFilterUpdatedAt)]

\* An update action that leaves out _id, so that the index names the record
\* itself: it takes a key not in use while there is one.
UpdateItemAutoId(t, d) ==
  LET free == {k \in Keys : ~t[k].present}
      k == IF free = {} THEN ToString(d._id) ELSE CHOOSE f \in free : TRUE
  IN [t EXCEPT ![k] = DocAsUpsert(t[k], PartialDoc(d))]

UpdateItem(t, d) ==
  [t EXCEPT ![ToString(d._id)] = DocAsUpsert(t[ToString(d._id)], PartialDoc(d))]

\* client.bulk: the items are applied in order; the items at the positions
\* in bad come back with update.error and are not applied.
RECURSIVE BulkApply(_, _, _, _)
BulkApply(t, docs, bad, n) ==
  IF n > Len(docs) THEN t
  ELSE BulkApply(IF n \in bad THEN t ELSE UpdateItem(t, docs[n]), docs, bad, n + 1)

\* What bulkIndex returns when client.bulk answers; conflicts are the
\* positions whose error is a version_conflict_engine_exception.
\* A result that counts a version conflict as an error as well.
BulkIndexResultCountsTwice(docs, bad, conflicts) ==
  [success |-> TRUE, processed |-> Len(docs),
   errors |-> Cardinality(bad),
   versionConflicts |-> Cardinality(bad \cap conflicts)]
BulkIndexResult(docs, bad, conflicts) ==
  [success |-> TRUE, processed |-> Len(docs),
   errors |-> Cardinality(bad \ conflicts),
   versionConflicts |-> Cardinality(bad \cap conflicts)]

\* client.delete on the index.
DeleteApply(t, k) == [t EXCEPT ![k] = Absent]

\* A deleteDocument that rethrows whatever the client throws.
DeleteDocumentOutcomeRethrows(resp) == IF resp = "ok" THEN "success" ELSE "throw"

\* deleteDocument: how it ends for a response of the client.
\*   "ok" (deleted), "404" (statusCode 404), "error" (any other failure)
DeleteDocumentOutcome(resp) ==
  IF resp = "ok" THEN "success"
  ELSE IF resp = "404" THEN "success"
  ELSE "throw"

\* ------------------------------------------------------------- the source
\* No document under an _id (a record, so that it compares with documents).
NoDoc == [_id |-> 0, status |-> Undef, urlFilterUpdatedAt |-> Undef]
EmptySource == [i \in Ids |-> NoDoc]
SourceDocs == {Doc(i, "a", Undef) : i \in Ids}
\* The collections of the reconciliation runs: a document sits under its _id.
SourceStates ==
  {s \in [Ids -> SourceDocs \cup {NoDoc}] : \A i \in Ids : s[i] # NoDoc => s[i]._id = i}
SourceIds(s) == {i \in Ids : s[i] # NoDoc}
\* collection.countDocuments()
CountDocuments(s) == Cardinality(SourceIds(s))
\* getIndexStats().docs_count
DocsCount(t) == Cardinality({k \in Keys : t[k].present})

\* ------------------------------------------- ReconciliationService (state)
NoResult == [kind |-> "none", success |-> FALSE, inSync |-> FALSE, difference |-> -1,
             synced |-> -1, missingCount |-> -1, orphanedDocs |-> -1]
IdleRecon ==
  [isRunning |-> FALSE,
   stats |-> [totalChecks |-> 0, totalSyncs |-> 0, documentsSynced |-> 0, errors |-> 0],
   pc |-> "idle", missingIds |-> <<>>, i |-> 0, synced |-> 0,
   scans |-> 0, writes |-> 0, upserted |-> {}, clean |-> TRUE,
   begun |-> [missing |-> {}, extra |-> {}],
   starting |-> FALSE,                 \* a start() awaits its first checkAndSync
   timers |-> 0,                       \* intervals set and not cleared
   intervalId |-> FALSE,               \* this.intervalId holds a timer
   passes |-> 0, result |-> NoResult]

\* ------------------------------------------- DocumentCountMonitor (state)
\* What the latest performCountCheck saw and did.
NoCheck == [outcome |-> "none", caller |-> "none", mongodb |-> 0, opensearch |-> 0, difference |-> 0,
            isMatch |-> FALSE, triggered |-> FALSE, trigOk |-> FALSE,
            enabled |-> FALSE, threshold |-> 0, mism0 |-> 0, calls0 |-> 0]
IdleDcm ==
  [pc |-> "idle",
   interval |-> FALSE,                 \* checkInterval is set
   autoSyncEnabled |-> TRUE,
   autoSyncThreshold |-> MaxThreshold, \* 100 in the constructor, scaled down
   stats |-> [checksPerformed |-> 0, mismatchesDetected |-> 0, autoSyncTriggered |-> 0],
   calls |-> 0,                        \* POSTs to /api/sync/full-sync made
   verify |-> 0,                       \* verification timeouts pending
   begun |-> 0,
   clients |-> 0,                      \* MongoClients of the monitor that are connected
   last |-> NoCheck]

\* ------------------------------------------------ performFullSync (state)
\* skip, totalProcessed, totalErrors, totalVersionConflicts of the run; pages:
\* pages fetched; failed: documents of the pages whose bulkIndex threw; hard:
\* items that came back with an error that is no version conflict;
\* outcome: "none", "returned" (result holds what it returned) or "threw";
\* handed: the _ids of the documents given to bulkIndex, in order.
\* successRate is held in hundredths of a percent, the two decimals toFixed(2)
\* keeps.
NoFullResult ==
  [success |-> FALSE, processed |-> -1, errors |-> -1, versionConflicts |-> -1,
   successRate |-> -1]
IdleFullSync ==
  [pc |-> "idle", skip |-> 0, totalProcessed |-> 0, totalErrors |-> 0,
   totalVersionConflicts |-> 0, documents |-> <<>>, pages |-> 0, failed |-> 0,
   hard |-> 0, runs |-> 0, outcome |-> "none", threwAt |-> "none",
   handed |-> <<>>, result |-> NoFullResult]

\* ------------------------------------------------------ the Express app
\* A request: its method, the mount path it falls under and the rest of its
\* path.
Methods == {"GET", "POST"}
Mounts == {"/api/sync", "/api/reconciliation", "/", "/other"}
Subs == {"", "/start", "/stop", "/status", "/check"}
Requests == [method : Methods, mount : Mounts, sub : Subs]
NoRequest == [method |-> "none", mount |-> "none", sub |-> "none"]

\* The layers the constructor registers, in order (setupRoutes): the three
\* routers, the guard of /api/reconciliation, the root endpoint, the
\* catch-all.
BaseLayers == <<"health", "sync", "countMonitor", "guard", "root", "notFound">>
ConstructedApp ==
  [layers |-> BaseLayers, reconciliationService |-> FALSE, listening |-> FALSE,
   served |-> 0, request |-> NoRequest, answer |-> "none"]

MountOf(layer) ==
  CASE layer = "health" -> "/api/health"
    [] layer = "sync" -> "/api/sync"
    [] layer = "countMonitor" -> "/api/count-monitor"
    [] layer = "reconciliation" -> "/api/reconciliation"
    [] OTHER -> "none"
\* The routes of a router (those under the modelled rest paths).
Routes(layer) ==
  CASE layer = "sync" -> {<<"POST", "/start">>, <<"POST", "/stop">>, <<"GET", "/status">>}
    [] layer = "countMonitor" -> {<<"POST", "/start">>, <<"POST", "/stop">>,
                                  <<"GET", "/status">>, <<"POST", "/check">>}
    [] layer = "reconciliation" -> {<<"POST", "/start">>, <<"POST", "/stop">>,
                                    <<"GET", "/status">>, <<"POST", "/check">>}
    [] OTHER -> {}

\* What a layer does with a request: the name of the handler that answers,
\* or "next".
LayerAnswer(layer, req, service) ==
  CASE layer \in {"health", "sync", "countMonitor", "reconciliation"} ->
         IF req.mount = MountOf(layer) /\ <<req.method, req.sub>> \in Routes(layer)
         THEN layer ELSE "next"
    [] layer = "guard" ->
         IF req.mount = "/api/reconciliation" /\ ~service THEN "guard503" ELSE "next"
    [] layer = "root" ->
         IF req.method = "GET" /\ req.mount = "/" /\ req.sub = "" THEN "root" ELSE "next"
    [] layer = "notFound" -> "notFound404"       \* app.use('*', ...) answers everything

\* Express walks the layers in the order of their registration, from the
\* n-th on; past the last one it answers with its own 404.
RECURSIVE Dispatch(_, _, _, _)
Dispatch(layers, req, service, n) ==
  IF n > Len(layers) THEN "final404"
  ELSE IF LayerAnswer(layers[n], req, service) # "next"
       THEN LayerAnswer(layers[n], req, service)
       ELSE Dispatch(layers, req, service, n + 1)

\* ------------------------------------------------------ timer callbacks
\* The callbacks handed to setInterval / setTimeout and what each calls:
\* flush (the periodic tick, processBatch), restart (restartChangeStream),
\* interval and initial (the scheduled and the first count check), verify
\* (the check after an auto-sync), reconciliation (checkAndSync).  manual is
\* the count check of the check route.
\* The callers that catch what their callee throws: try/catch in the
\* interval and verify callbacks and in the route, .catch on the initial
\* check.  The flush, restart and reconciliation callbacks have none.
CatchesNothing(caller) == FALSE

Catches(caller) == caller \in {"interval", "initial", "verify", "manual"}

\* How the callee ends when a backend call of it fails: performCountCheck
\* logs and rethrows; checkAndSync and restartChangeStream log and return.
CalleeOutcome(caller, ok) ==
  IF ok THEN "returns"
  ELSE IF caller \in {"interval", "initial", "verify", "manual"} THEN "throws"
  ELSE "returns"

\* The callbacks that an error has left, after the callee of caller ended.
Escapes(set, caller, ok) ==
  IF CalleeOutcome(caller, ok) = "throws" /\ ~Catches(caller)
  THEN set \cup {caller} ELSE set

\* ------------------------------------------------ feed restarts (state)
\* timers: restart timeouts pending; pc: where restartChangeStream stands;
\* errs: 'error' events so far; dead: the stream opened last has been
\* closed; stale: a stop() awaits the close() of a stream that has been
\* replaced by a newer one since.
IdleRestart == [timers |-> 0, pc |-> "idle", errs |-> 0, dead |-> FALSE, stale |-> FALSE]

\* ----------------------------------------------------------------- state
VARIABLES
  queue,          \* BulkProcessor.queue
  processing,     \* BulkProcessor.processing
  stats,          \* BulkProcessor.stats: processed, errors
  pass,           \* per caller: its processBatch invocation in progress
  lastReq,        \* outcome of the latest direct processBatch() call
  escaped,        \* an exception has left processBatch for its caller
  timerOn,        \* the setInterval of startPeriodicProcessing is armed
  target,         \* the OpenSearch index: key -> record
  isRunning,      \* SyncService.isRunning
  changeStream,   \* SyncService.changeStream is not null
  feedsOpen,      \* open change streams with the 'change' handler attached
  syncStats,      \* SyncService.stats: documentsProcessed, documentsSkipped, errors
  flushPc,        \* POST /api/sync/flush: where its flush() stands
  stopPc,         \* per caller of stop(): where it stands
  dcmRunning,     \* DocumentCountMonitor.isRunning
  proc,           \* the process: signal received, shutdown handlers, exit code
  fed,            \* history: the operations the feed delivered, in order
  added, faults, itemErrs, starts,   \* budgets of the run
  trace,          \* direct adapter calls made on the target (adapter specification)
  source,         \* the MongoDB collection: _id -> document, or NoDoc
  recon,          \* ReconciliationService: isRunning, stats, the pass in progress
  dcm,            \* DocumentCountMonitor: settings, stats, the check in progress
  restart,        \* the feed's 'error' handler: restart timers and restarts
  fsync,          \* performFullSync: the run in progress and its result
  startRes,       \* how the latest start() / startMonitoring() call ended
  http,           \* the Express app: its layers, the service reference, the latest request
  uncaught        \* the timer callbacks that an exception or a rejection has left

vars == <<queue, processing, stats, pass, lastReq, escaped, timerOn, target, isRunning,
          changeStream, feedsOpen, syncStats, flushPc, stopPc, dcmRunning, proc,
          fed, added, faults, itemErrs, starts, trace, source, recon, dcm, restart,
          fsync, startRes, http, uncaught>>

restVars == <<fsync, startRes, http>>
moreVars == <<restVars, uncaught>>
auxVars == <<source, recon, dcm, restart, moreVars>>
bpVars == <<queue, processing, stats, pass>>
syncVars == <<isRunning, changeStream, feedsOpen, syncStats>>
ctlVars == <<flushPc, stopPc, dcmRunning, proc>>

\* Callers of processBatch.  handler: the 'change' handler through
\* addDocument; timer: the periodic tick; direct: a direct call of the public
\* methods addDocuments / processBatch; flush: the flush() of the flush
\* route; stopR, stopS: the flush() inside stop(), called by the stop route
\* and by gracefulShutdown.
Stoppers == {"stopR", "stopS"}
Flushers == {"flush"} \cup Stoppers
Owners == {"handler", "timer", "direct"} \cup Flushers

IdlePass == [pc |-> "idle", batch |-> <<>>, attempt |-> 0, delIdx |-> 0,
             calls |-> 0, oks |-> 0]

\* The state after construction, but for the contents of the index.
Constructed ==
  /\ queue = <<>>
  /\ processing = FALSE
  /\ stats = [processed |-> 0, errors |-> 0]
  /\ pass = [o \in Owners |-> IdlePass]
  /\ lastReq = "none"
  /\ escaped = FALSE
  /\ timerOn = FALSE
  /\ isRunning = FALSE
  /\ changeStream = FALSE
  /\ feedsOpen = 0
  /\ syncStats = [documentsProcessed |-> 0, documentsSkipped |-> 0, errors |-> 0]
  /\ flushPc = "idle"
  /\ stopPc = [s \in Stoppers |-> "idle"]
  /\ dcmRunning = FALSE
  /\ proc = [sig |-> FALSE, monPc |-> "idle", shutPc |-> "idle", exit |-> "none"]
  /\ fed = <<>>
  /\ added = 0
  /\ faults = 0
  /\ itemErrs = 0
  /\ starts = 0
  /\ trace = <<>>
  /\ recon = IdleRecon
  /\ dcm = IdleDcm
  /\ restart = IdleRestart
  /\ fsync = IdleFullSync
  /\ startRes = [sync |-> "none", monitor |-> "none"]
  /\ http = ConstructedApp
  /\ uncaught = {}

\* The service starts on an index it has just created.
Init == Constructed /\ target = EmptyTarget /\ source = EmptySource

Exited == proc.exit # "none"

\* A flush() that found the queue non-empty and a pass active: each
\* processBatch() it awaits returns at once, so its loop runs again in the
\* next microtask, for ever; the event loop never gets to the I/O
\* completion of the active pass or to any other callback.
Hung == flushPc = "spin" \/ \E s \in Stoppers : stopPc[s] = "spin"

Live == ~Exited /\ ~Hung

\* ------------------------------------------------------- BulkProcessor
Min(a, b) == IF a < b THEN a ELSE b

\* A splice that detaches one operation more than the batch size.
SpliceOneMore(q) == SubSeq(q, 1, Min(batchSize + 1, Len(q)))

\* const batch = this.queue.splice(0, this.batchSize)
Splice(q) == SubSeq(q, 1, Min(batchSize, Len(q)))
AfterSplice(q) == SubSeq(q, Min(batchSize, Len(q)) + 1, Len(q))

\* A guard that does not look at the processing flag.
ProcessBatchSkipsOnlyEmpty(q, p) == Len(q) = 0

\* if (this.processing || this.queue.length === 0) return;
ProcessBatchSkips(q, p) == p \/ Len(q) = 0

IsDelete(item) == item.operation = "delete"
IsUpsert(item) == item.operation # "delete"
Documents(batch) ==
  LET s == SelectSeq(batch, IsUpsert) IN [n \in 1..Len(s) |-> s[n].document]
DeleteIds(batch) ==
  LET s == SelectSeq(batch, IsDelete) IN [n \in 1..Len(s) |-> ToString(s[n].document._id)]

\* One attempt of processBatchWithRetry begins: its first adapter call is
\* issued (bulkIndex when there are upserts, else the first deleteDocument).
BeginAttempt(batch, attempt, calls, oks) ==
  [pc |-> IF Len(Documents(batch)) > 0 THEN "bulk" ELSE "delete",
   batch |-> batch, attempt |-> attempt, delIdx |-> 1,
   calls |-> calls + 1, oks |-> oks]

\* processBatch() called by o when the queue is q, processing is p and the
\* invocations in progress are ps: it returns at once, or detaches the
\* batch and starts attempt 1.  (One invocation in progress per caller is
\* kept; the guard of the code makes a second one return at once.)
ProcessBatch(o, q, p, ps) ==
  IF ProcessBatchSkips(q, p) \/ ps[o].pc # "idle"
  THEN /\ queue' = q
       /\ processing' = p
       /\ pass' = ps
  ELSE /\ queue' = AfterSplice(q)
       /\ processing' = TRUE
       /\ pass' = [ps EXCEPT ![o] = BeginAttempt(Splice(q), 1, 0, 0)]

\* flush(): while (this.queue.length > 0) await this.processBatch();
\* where the loop of f stands after it looked at queue q: returned
\* ("idle"), awaiting its own pass ("active"), or spinning on a processBatch
\* that returns at once ("spin").
FlushStands(f, q, p, ps) ==
  IF Len(q) = 0 THEN "idle"
  ELSE IF ProcessBatchSkips(q, p) \/ ps[f].pc # "idle" THEN "spin"
  ELSE "active"

\* A flush pass has started at some time (each pass counts its batch, of at
\* least one operation, into processed or errors when it ends).
EverPassed == processing \/ stats.processed + stats.errors > 0

\* if (this.queue.length >= this.batchSize) await this.processBatch();
AddThreshold(q) == Len(q) >= batchSize

\* How processBatch ends for its caller: its try block completes (ok), or
\* its catch block counts, logs and re-queues; neither rethrows.
ProcessBatchOutcome(ok) == "returns"

\* A catch that does not put the failed batch back.
RequeueDrops(batch, q) == q

\* A re-queue that appends the failed batch.
RequeueAtBack(batch, q) == q \o batch

\* this.queue.unshift(...batch)
Requeue(batch, q) == batch \o q

\* The invocation of o ends: processBatch's try (ok) or catch (not ok),
\* then finally, then what the caller of processBatch does next.
Finish(o, ok) ==
  LET b == pass[o].batch
      q1 == IF ok THEN queue ELSE Requeue(b, queue)
      ps1 == [pass EXCEPT ![o] = IdlePass]
      st == FlushStands(o, q1, FALSE, ps1)
  IN /\ stats' = IF ok THEN [stats EXCEPT !.processed = @ + Len(b)]
                 ELSE [stats EXCEPT !.errors = @ + Len(b)]
     /\ escaped' = (escaped \/ ProcessBatchOutcome(ok) = "throws")
     /\ IF o \in Flushers
        THEN ProcessBatch(o, q1, FALSE, ps1)            \* the while loop of flush()
        ELSE /\ queue' = q1
             /\ processing' = FALSE
             /\ pass' = ps1
           \* handleChange after its await addDocument
     /\ syncStats' = IF o = "handler"
                     THEN [syncStats EXCEPT !.documentsProcessed = @ + 1]
                     ELSE syncStats
     /\ flushPc' = IF o = "flush" THEN st ELSE flushPc
     /\ stopPc' = IF o \in Stoppers THEN [stopPc EXCEPT ![o] = st] ELSE stopPc
     \* gracefulShutdown after its await this.syncService.stop()
     /\ proc' = IF o = "stopS" /\ st = "idle"
                THEN [proc EXCEPT !.shutPc = "disconnect"]
                ELSE proc

\* The invocation of o goes on to rec; nothing else of the processor moves.
Continue(o, rec) ==
  /\ pass' = [pass EXCEPT ![o] = rec]
  /\ UNCHANGED <<queue, processing, stats, escaped, syncStats, flushPc, stopPc, proc>>

\* A retry loop that gives up one attempt early.
AttemptFailedGivesUpEarly(o) ==
  IF pass[o].attempt < maxRetries - 1
  THEN Continue(o, [pass[o] EXCEPT !.pc = "backoff"])
  ELSE Finish(o, FALSE)

\* catch (error) of processBatchWithRetry: back off, or throw lastError
\* after the last attempt.
AttemptFailed(o) ==
  IF pass[o].attempt < maxRetries
  THEN Continue(o, [pass[o] EXCEPT !.pc = "backoff"])
  ELSE Finish(o, FALSE)

passFrame == <<lastReq, timerOn, isRunning, changeStream, feedsOpen, dcmRunning,
               fed, added, starts, trace, auxVars>>

\* client.bulk of bulkIndex answers; the items at bad carry an error.
BulkResponse(o, bad) ==
  /\ Live
  /\ pass[o].pc = "bulk"
  /\ bad \subseteq 1..Len(Documents(pass[o].batch))
  /\ itemErrs + Cardinality(bad) <= MaxItemErrs
  /\ itemErrs' = itemErrs + Cardinality(bad)
  /\ UNCHANGED faults
  /\ target' = BulkApply(target, Documents(pass[o].batch), bad, 1)
  /\ IF Len(DeleteIds(pass[o].batch)) > 0
     THEN Continue(o, [pass[o] EXCEPT !.pc = "delete", !.delIdx = 1,
                                     !.calls = @ + 1, !.oks = @ + 1])
     ELSE Finish(o, TRUE)
  /\ UNCHANGED passFrame

\* client.bulk fails as a whole: bulkIndex throws.
BulkThrow(o) ==
  /\ Live
  /\ pass[o].pc = "bulk"
  /\ faults < MaxFaults
  /\ faults' = faults + 1
  /\ AttemptFailed(o)
  /\ UNCHANGED <<target, itemErrs, passFrame>>

\* client.delete of deleteDocument answers with resp.
DeleteResponse(o, resp) ==
  LET k == DeleteIds(pass[o].batch)[pass[o].delIdx] IN
  /\ Live
  /\ pass[o].pc = "delete"
  /\ resp \in {IF target[k].present THEN "ok" ELSE "404", "error"}
  /\ resp = "error" => faults < MaxFaults
  /\ faults' = IF resp = "error" THEN faults + 1 ELSE faults
  /\ target' = IF resp = "ok" THEN DeleteApply(target, k) ELSE target
  /\ IF DeleteDocumentOutcome(resp) = "success"
     THEN IF pass[o].delIdx < Len(DeleteIds(pass[o].batch))
          THEN Continue(o, [pass[o] EXCEPT !.delIdx = @ + 1,
                                          !.calls = @ + 1, !.oks = @ + 1])
          ELSE Finish(o, TRUE)
     ELSE AttemptFailed(o)
  /\ UNCHANGED <<itemErrs, passFrame>>

\* The backoff timer of an attempt fires: the next attempt begins.
BackoffDone(o) ==
  /\ Live
  /\ pass[o].pc = "backoff"
  /\ Continue(o, BeginAttempt(pass[o].batch, pass[o].attempt + 1,
                              pass[o].calls, pass[o].oks))
  /\ UNCHANGED <<target, faults, itemErrs, passFrame>>

\* ------------------------------------------------- callers of the processor
\* BulkProcessor.addDocument / addDocuments by caller o: push, then the
\* threshold check.
Add(o, items) ==
  LET q == queue \o items IN
  /\ IF AddThreshold(q)
     THEN ProcessBatch(o, q, processing, pass)
     ELSE /\ queue' = q
          /\ UNCHANGED <<processing, pass>>

\* The events the change stream delivers (its pipeline passes only these
\* four operation types; fullDocument is the looked-up document or null:
\* hasFull says which, documentKey is the identifier).
OperationTypes == {"insert", "update", "replace", "delete"}
Event(t, full, d) ==
  [operationType |-> t, hasFull |-> full, fullDocument |-> d, documentKey |-> d._id]
FeedEvents ==
  {Event(t, TRUE, d) : t \in {"insert", "update", "replace"}, d \in FeedDocs}
  \cup {Event("update", FALSE, DocKey(i)) : i \in Ids}
  \cup {Event("delete", FALSE, DocKey(i)) : i \in Ids}

\* A translation that enqueues an upsert of the bare key when the event
\* carries no full document.
TranslateUpsertsKey(ev) ==
  IF ev.operationType = "delete" THEN <<Delete(ev.documentKey)>>
  ELSE IF ev.hasFull THEN <<Upsert(ev.fullDocument)>>
  ELSE <<Upsert(DocKey(ev.documentKey))>>
\* What handleChange enqueues for an event: <<operation>> or <<>> (skipped).
Translate(ev) ==
  IF ev.operationType \in {"insert", "update", "replace"}
  THEN IF ev.hasFull THEN <<Upsert(ev.fullDocument)>> ELSE <<>>
  ELSE IF ev.operationType = "delete" THEN <<Delete(ev.documentKey)>>
  ELSE <<>>

\* The 'change' handler: handleChange(change).  Its counter is bumped here
\* unless the handler is left awaiting the pass it started.
Change(ev) ==
  /\ Live
  /\ feedsOpen > 0
  /\ added < MaxAdded
  /\ added' = added + 1
  /\ IF Translate(ev) = <<>>
     THEN /\ syncStats' = [syncStats EXCEPT !.documentsSkipped = @ + 1]
          /\ UNCHANGED <<queue, processing, pass, fed>>
     ELSE /\ fed' = Append(fed, [op |-> Translate(ev)[1], late |-> EverPassed])
          /\ Add("handler", Translate(ev))
          /\ syncStats' = IF pass'["handler"] = pass["handler"]
                          THEN [syncStats EXCEPT !.documentsProcessed = @ + 1]
                          ELSE syncStats
  /\ UNCHANGED <<stats, lastReq, escaped, timerOn, target, isRunning, changeStream, feedsOpen,
                 flushPc, stopPc, dcmRunning, proc, faults, itemErrs, starts, trace, auxVars>>

\* A direct call of addDocument(document, operation).
DirectDocs == {Doc(1, "a", Undef)}
DirectOps == {Upsert(d) : d \in DirectDocs} \cup {Delete(1)}
AddDocumentCall(item) ==
  /\ Live
  /\ added < MaxAdded
  /\ added' = added + 1
  /\ Add("direct", <<item>>)
  /\ UNCHANGED <<stats, lastReq, escaped, timerOn, target, syncVars, ctlVars, fed, faults, itemErrs, starts, trace, auxVars>>

\* A direct call of addDocuments(documents, operation).
DirectLists == UNION {[1..n -> DirectDocs] : n \in 2..MaxAdded}
AddDocumentsCall(docs, operation) ==
  /\ Live
  /\ added + Len(docs) <= MaxAdded
  /\ added' = added + Len(docs)
  /\ Add("direct", [n \in 1..Len(docs) |->
                      [document |-> IF operation = "delete" THEN DocKey(docs[n]._id)
                                    ELSE docs[n],
                       operation |-> operation]])
  /\ UNCHANGED <<stats, lastReq, escaped, timerOn, target, syncVars, ctlVars, fed, faults, itemErrs, starts, trace, auxVars>>

\* A direct call of processBatch().
ProcessBatchCall ==
  /\ Live
  /\ ProcessBatch("direct", queue, processing, pass)
  /\ lastReq' = IF pass'["direct"] # pass["direct"] THEN "ran" ELSE "noop"
  /\ UNCHANGED <<escaped, stats, timerOn, target, syncVars, ctlVars, fed, added, faults, itemErrs,
                 starts, trace, auxVars>>

\* A tick that starts a pass only for a full batch.
TickFullBatchOnly ==
  /\ Live
  /\ timerOn
  /\ Len(queue) >= batchSize
  /\ ProcessBatch("timer", queue, processing, pass)
  /\ UNCHANGED <<stats, lastReq, escaped, timerOn, target, syncVars, ctlVars, fed, added,
                 faults, itemErrs, starts, trace, auxVars>>

\* The periodic tick: if (this.queue.length > 0) await this.processBatch();
Tick ==
  /\ Live
  /\ timerOn
  /\ Len(queue) > 0
  /\ ProcessBatch("timer", queue, processing, pass)
  /\ UNCHANGED <<stats, lastReq, escaped, timerOn, target, syncVars, ctlVars, fed, added,
                 faults, itemErrs, starts, trace, auxVars>>

\* POST /api/sync/flush: bulkProcessor.flush().
FlushCall ==
  /\ Live
  /\ timerOn
  /\ flushPc = "idle"
  /\ ProcessBatch("flush", queue, processing, pass)
  /\ flushPc' = FlushStands("flush", queue, processing, pass)
  /\ UNCHANGED <<stats, lastReq, escaped, timerOn, target, syncVars, stopPc, dcmRunning, proc,
                 fed, added, faults, itemErrs, starts, trace, auxVars>>

\* --------------------------------------------------------- SyncService
\* SyncService.initialize(): connections, then startPeriodicProcessing.
Initialize ==
  /\ Live
  /\ ~timerOn
  /\ timerOn' = TRUE
  /\ UNCHANGED <<bpVars, lastReq, escaped, target, syncVars, ctlVars, fed,
                 added, faults, itemErrs, starts, trace, auxVars>>

\* SyncService.start(): opens the change stream and attaches the handlers.
Start ==
  /\ Live
  /\ timerOn
  /\ ~isRunning
  /\ starts < MaxStarts
  /\ starts' = starts + 1
  /\ isRunning' = TRUE
  /\ changeStream' = TRUE
  /\ LET replaces == changeStream /\ \E s \in Stoppers : stopPc[s] = "closing" IN
     \* a stream that a stop() is still closing is replaced: its close()
     \* takes it away, the new stream is open
     /\ feedsOpen' = IF replaces /\ ~restart.dead /\ ~restart.stale /\ feedsOpen > 0
                     THEN feedsOpen ELSE feedsOpen + 1
     /\ restart' = [restart EXCEPT !.dead = FALSE, !.stale = replaces]
  /\ startRes' = [startRes EXCEPT !.sync = "returned"]
  /\ UNCHANGED <<bpVars, lastReq, escaped, timerOn, target, syncStats, ctlVars, fed, added, faults, itemErrs, trace, source, recon, dcm, fsync, http, uncaught>>

\* A catch that leaves the flag set by the try.
RunningAfterFailedStartStays == TRUE
\* catch of start() and of startMonitoring(): this.isRunning = false.
RunningAfterFailedStart == FALSE

startFrame == <<bpVars, lastReq, escaped, timerOn, target, ctlVars, fed, added,
                itemErrs, starts, trace, source, recon, dcm, restart, fsync, http, uncaught>>

\* start() whose startChangeStream() throws (the collection is not there,
\* or watch() throws): isRunning = true, the throw, the catch, the rethrow.
StartFails ==
  /\ Live
  /\ ~isRunning
  /\ faults < MaxFaults
  /\ faults' = faults + 1
  /\ isRunning' = RunningAfterFailedStart
  /\ startRes' = [startRes EXCEPT !.sync = "threw"]
  /\ UNCHANGED <<changeStream, feedsOpen, syncStats, startFrame>>

\* start() on a running service: the warning and the return.
StartAlready ==
  /\ Live
  /\ isRunning
  /\ startRes.sync # "already"
  /\ startRes' = [startRes EXCEPT !.sync = "already"]
  /\ UNCHANGED <<syncVars, faults, startFrame>>

\* SyncService.stop() by s, up to its first await of real I/O.
StopSync(s) ==
  IF ~isRunning
  THEN UNCHANGED <<isRunning, stopPc, queue, processing, pass>>
  ELSE /\ isRunning' = FALSE
       /\ IF changeStream
          THEN /\ stopPc' = [stopPc EXCEPT ![s] = "closing"]   \* await changeStream.close()
               /\ UNCHANGED <<queue, processing, pass>>
          ELSE /\ ProcessBatch(s, queue, processing, pass)     \* await bulkProcessor.flush()
               /\ stopPc' = [stopPc EXCEPT ![s] = FlushStands(s, queue, processing, pass)]

\* stop() by s returns without awaiting any I/O.
StopReturnsAtOnce(s) ==
  \/ ~isRunning
  \/ ~changeStream /\ FlushStands(s, queue, processing, pass) = "idle"

\* POST /api/sync/stop.
StopCall ==
  /\ Live
  /\ timerOn
  /\ stopPc["stopR"] = "idle"
  /\ StopSync("stopR")
  /\ UNCHANGED <<stats, lastReq, escaped, timerOn, target, changeStream, feedsOpen, syncStats,
                 flushPc, dcmRunning, proc, fed, added, faults, itemErrs, starts, trace, auxVars>>

\* changeStream.close() of the stop() of s is done: this.changeStream =
\* null, then the flush.
StopClosed(s) ==
  LET st == FlushStands(s, queue, processing, pass) IN
  /\ Live
  /\ stopPc[s] = "closing"
  /\ changeStream' = FALSE
  /\ feedsOpen' = IF feedsOpen > 0 /\ ~restart.dead /\ ~restart.stale
                  THEN feedsOpen - 1 ELSE feedsOpen
  /\ restart' = [restart EXCEPT !.dead = IF restart.stale THEN @ ELSE FALSE,
                                !.stale = FALSE]
  /\ ProcessBatch(s, queue, processing, pass)
  /\ stopPc' = [stopPc EXCEPT ![s] = st]
  /\ proc' = IF s = "stopS" /\ st = "idle"
             THEN [proc EXCEPT !.shutPc = "disconnect"]
             ELSE proc
  /\ UNCHANGED <<stats, lastReq, escaped, timerOn, target, isRunning, syncStats, flushPc,
                 dcmRunning, fed, added, faults, itemErrs, starts, trace, source, recon, dcm, moreVars>>

\* A handler that schedules no restart.
RestartNotScheduled(timers) == timers
\* The 'error' handler's setTimeout(..., 5000): one more restart pending.
RestartScheduled(timers) == timers + 1

feedFrame == <<bpVars, lastReq, escaped, timerOn, target, ctlVars, fed, added, faults,
               itemErrs, starts, trace, source, recon, dcm, moreVars>>

\* The open change stream emits 'error' (the driver has closed it): the
\* handler counts the error and sets the restart timeout.
FeedError ==
  /\ Live
  /\ ~restart.dead /\ feedsOpen > 0
  /\ restart.stale \/ \A s \in Stoppers : stopPc[s] # "closing"
  /\ restart.errs < MaxFeedErrs
  /\ feedsOpen' = feedsOpen - 1
  /\ syncStats' = [syncStats EXCEPT !.errors = @ + 1]
  /\ restart' = [restart EXCEPT !.errs = @ + 1, !.dead = TRUE,
                                !.timers = RestartScheduled(@)]
  /\ UNCHANGED <<isRunning, changeStream, feedFrame>>

\* The restart timeout fires: nothing if the service is not running, else
\* restartChangeStream() up to its await of changeStream.close(), or, with
\* no stream to close, through startChangeStream().
RestartTimerFires ==
  /\ Live
  /\ restart.timers > 0
  /\ restart.pc = "idle"
  /\ IF ~isRunning
     THEN /\ restart' = [restart EXCEPT !.timers = @ - 1]
          /\ UNCHANGED <<changeStream, feedsOpen>>
     ELSE IF changeStream
     THEN /\ restart' = [restart EXCEPT !.timers = @ - 1, !.pc = "closing", !.dead = TRUE]
          /\ feedsOpen' = IF restart.dead THEN feedsOpen ELSE feedsOpen - 1
          /\ UNCHANGED changeStream
     ELSE /\ restart' = [restart EXCEPT !.timers = @ - 1, !.dead = FALSE]
          /\ changeStream' = TRUE
          /\ feedsOpen' = feedsOpen + 1
  /\ UNCHANGED <<isRunning, syncStats, feedFrame>>

\* restartChangeStream: the close() is done, startChangeStream() opens a
\* new stream and attaches the handlers.
RestartClosed ==
  /\ Live
  /\ restart.pc = "closing"
  /\ changeStream' = TRUE
  /\ feedsOpen' = feedsOpen + 1
  /\ restart' = [restart EXCEPT !.pc = "idle", !.dead = FALSE,
                                !.stale = @ \/ \E s \in Stoppers : stopPc[s] = "closing"]
  /\ UNCHANGED <<isRunning, syncStats, feedFrame>>

\* ------------------------------------------------------------- shutdown
\* documentCountMonitor.startMonitoring() (server start or its route).
StartMonitoring ==
  /\ Live
  /\ timerOn
  /\ ~dcmRunning
  /\ ~proc.sig
  /\ dcmRunning' = TRUE
  /\ dcm' = [dcm EXCEPT !.interval = TRUE,             \* setInterval
                        !.clients = @ + 1]              \* initialize(): connect()
  /\ startRes' = [startRes EXCEPT !.monitor = "returned"]
  /\ UNCHANGED <<bpVars, lastReq, escaped, timerOn, target, syncVars, flushPc, stopPc, proc,
                 fed, added, faults, itemErrs, starts, trace, source, recon, restart, fsync, http, uncaught>>

monitorFrame == <<bpVars, lastReq, escaped, timerOn, target, syncVars, flushPc, stopPc,
                  proc, fed, added, itemErrs, starts, trace, source, recon, restart, fsync, http, uncaught>>

\* startMonitoring() whose initialize() throws (no connection): no timer is
\* set, the catch puts isRunning to false and rethrows.
StartMonitoringFails ==
  /\ Live
  /\ ~dcmRunning
  /\ ~proc.sig
  /\ faults < MaxFaults
  /\ faults' = faults + 1
  /\ dcmRunning' = RunningAfterFailedStart
  /\ startRes' = [startRes EXCEPT !.monitor = "threw"]
  /\ UNCHANGED <<dcm, monitorFrame>>

\* startMonitoring() on a running monitor: the warning and the return.
StartMonitoringAlready ==
  /\ Live
  /\ dcmRunning
  /\ ~proc.sig
  /\ startRes.monitor # "already"
  /\ startRes' = [startRes EXCEPT !.monitor = "already"]
  /\ UNCHANGED <<dcm, dcmRunning, faults, monitorFrame>>

\* SIGTERM or SIGINT.  The listeners run in the order they were registered:
\* first the one of documentCountMonitor.js (registered when server.js
\* requires the module), then gracefulShutdown of the Server.  Each runs to
\* its first await; the monitor's listener calls process.exit(0) as soon as
\* its stopMonitoring() has returned.
Signal ==
  /\ Live
  /\ ~proc.sig
  /\ StopSync("stopS")
  /\ dcmRunning' = FALSE
  /\ proc' = IF ~dcmRunning
             THEN [sig |-> TRUE, monPc |-> "idle", shutPc |-> "stop", exit |-> "0"]
             ELSE [sig |-> TRUE, monPc |-> "closing",     \* await mongodbClient.close()
                   shutPc |-> IF StopReturnsAtOnce("stopS") THEN "disconnect" ELSE "stop",
                   exit |-> "none"]
  /\ dcm' = [dcm EXCEPT !.interval = FALSE]            \* clearInterval
  /\ UNCHANGED <<stats, lastReq, escaped, timerOn, target, changeStream, feedsOpen, syncStats,
                 flushPc, fed, added, faults, itemErrs, starts, trace, source, recon, restart, moreVars>>

\* The monitor's listener: its close() is done, process.exit(0).
MonitorClosed ==
  /\ Live
  /\ proc.monPc = "closing"
  /\ proc' = [proc EXCEPT !.monPc = "idle", !.exit = "0"]
  /\ dcm' = [dcm EXCEPT !.clients = @ - 1]
  /\ UNCHANGED <<bpVars, lastReq, escaped, timerOn, target, syncVars, flushPc, stopPc,
                 dcmRunning, fed, added, faults, itemErrs, starts, trace, source, recon,
                 restart, moreVars>>

\* gracefulShutdown: mongodbService.disconnect() is done, process.exit(0).
DisconnectDone ==
  /\ Live
  /\ proc.shutPc = "disconnect"
  /\ proc' = [proc EXCEPT !.shutPc = "idle", !.exit = "0"]
  /\ UNCHANGED <<bpVars, lastReq, escaped, timerOn, target, syncVars, flushPc, stopPc,
                 dcmRunning, fed, added, faults, itemErrs, starts, trace, auxVars>>

\* ------------------------------------------- the adapter, called directly
adapterFrame == <<bpVars, lastReq, escaped, timerOn, syncVars, ctlVars, fed, added,
                  faults, itemErrs, starts, auxVars>>

\* No result: the call threw, or it was no bulkIndex with documents.
NoBulkResult == [success |-> FALSE, processed |-> -1, errors |-> -1, versionConflicts |-> -1]

\* trace holds the latest call: its arguments, how the client answered, how
\* the call ended, the index before it, and whether the call before it was
\* the same call answered the same way.
Record(call, docs, key, bad, resp, outcome) ==
  <<[call |-> call, docs |-> docs, key |-> key, bad |-> bad, resp |-> resp,
     outcome |-> outcome, before |-> target,
     conflicts |-> {}, result |-> NoBulkResult,
     repeat |-> /\ trace # <<>>
                /\ trace[1].call = call /\ trace[1].docs = docs /\ trace[1].key = key
                /\ trace[1].bad = bad /\ trace[1].resp = resp]>>

\* bulkIndex(docs); resp is how client.bulk ends ("ok": it answers, the
\* items at bad carrying an error; "error": it fails), "none" when the
\* list is empty and the client is not called.
BulkIndexOutcome(docs, resp) ==
  IF Len(docs) = 0 THEN "success"
  ELSE IF resp = "ok" THEN "success"
  ELSE "throw"
BulkIndexCall(docs, resp, bad, conflicts) ==
  /\ resp = "none" <=> Len(docs) = 0
  /\ bad \subseteq 1..Len(docs)
  /\ conflicts \subseteq bad
  /\ resp # "ok" => bad = {}
  /\ target' = IF resp = "ok" THEN BulkApply(target, docs, bad, 1) ELSE target
  /\ trace' = <<[Record("bulkIndex", docs, "", bad, resp, BulkIndexOutcome(docs, resp))[1]
                   EXCEPT !.conflicts = conflicts,
                          !.result = IF resp = "ok"
                                     THEN BulkIndexResult(docs, bad, conflicts)
                                     ELSE NoBulkResult]>>
  /\ UNCHANGED adapterFrame

\* deleteDocument(k); resp is how client.delete ends.
DeleteDocumentCall(k, resp) ==
  /\ resp \in {IF target[k].present THEN "ok" ELSE "404", "error"}
  /\ target' = IF resp = "ok" THEN DeleteApply(target, k) ELSE target
  /\ trace' = Record("deleteDocument", <<>>, k, {}, resp, DeleteDocumentOutcome(resp))
  /\ UNCHANGED adapterFrame

\* ------------------------------------------------ ReconciliationService
reconFrame0 == <<bpVars, lastReq, escaped, timerOn, syncVars, ctlVars, fed, added,
                 starts, trace, source, dcm, restart, restVars>>
reconFrame == <<reconFrame0, uncaught>>

RECURSIVE Ascending(_)
Ascending(S) ==
  IF S = {} THEN <<>>
  ELSE LET m == CHOOSE x \in S : \A y \in S : x <= y
       IN <<m>> \o Ascending(S \ {m})

\* mongoIdSet: the strings of the _ids of the collection; osIdSet: the _ids
\* of the hits of the search_after scan.
MongoIdSet(s) == {ToString(i) : i \in SourceIds(s)}
OsIdSet(t) == {k \in Keys : t[k].present}
\* A difference that takes every identifier of the source.
MissingIdsEverySource(s, t) ==
  LET ids == Ascending(SourceIds(s))
  IN [n \in 1..Len(ids) |-> ToString(ids[n])]
\* missingIds, in the order the collection scan returned the _ids.
MissingIds(s, t) ==
  LET ids == Ascending({i \in SourceIds(s) : ToString(i) \notin OsIdSet(t)})
  IN [n \in 1..Len(ids) |-> ToString(ids[n])]

\* new ObjectId(id): the _id whose string is id.
ToObjectId(str) == CHOOSE i \in Ids : ToString(i) = str
\* A slice that starts one identifier too late.
BatchIdsStartsLate(ids, i) == SubSeq(ids, i + 2, Min(i + reconBatch, Len(ids)))
\* ids.slice(i, i + batchSize)
BatchIds(ids, i) == SubSeq(ids, i + 1, Min(i + reconBatch, Len(ids)))
\* collection.find({ _id: { $in: objectIds } }).toArray()
FindByIds(s, batchIds) ==
  LET found == Ascending({ToObjectId(batchIds[n]) : n \in 1..Len(batchIds)}
                         \cap SourceIds(s))
  IN [n \in 1..Len(found) |-> s[found[n]]]

\* The three-way branch of checkAndSync on difference = mongoCount - osCount.
\* A branch that repairs whenever the counts differ.
CheckBranchRepairsOrphans(difference) ==
  IF difference = 0 THEN "cheap" ELSE "repair"
\* A branch that takes the scan even when the counts are equal.
CheckBranchAlwaysScans(difference) ==
  IF difference >= 0 THEN "repair" ELSE "orphans"
CheckBranch(difference) ==
  IF difference = 0 THEN "cheap"
  ELSE IF difference > 0 THEN "repair"
  ELSE "orphans"

CheapResult == [kind |-> "cheap", success |-> TRUE, inSync |-> TRUE, difference |-> 0,
                synced |-> 0, missingCount |-> -1, orphanedDocs |-> -1]
OrphanResult(difference) ==
  [kind |-> "orphans", success |-> TRUE, inSync |-> FALSE, difference |-> difference,
   synced |-> 0, missingCount |-> -1, orphanedDocs |-> 0 - difference]
\* What syncMissingDocuments returns.
SyncResult(synced, missingCount) ==
  [kind |-> "synced", success |-> TRUE, inSync |-> TRUE, difference |-> -1,
   synced |-> synced, missingCount |-> missingCount, orphanedDocs |-> -1]
FailureResult == [NoResult EXCEPT !.kind = "failed"]

\* start() after its await of the first checkAndSync: this.intervalId =
\* setInterval(...).  It runs as soon as that pass has settled, whatever
\* isRunning is by then.
StartContinues(rc) ==
  IF rc.starting
  THEN [rc EXCEPT !.starting = FALSE, !.timers = @ + 1, !.intervalId = TRUE]
  ELSE rc
\* checkAndSync returns r.
EndPass(rc, r) == StartContinues([rc EXCEPT !.pc = "idle", !.result = r])
\* catch (error) of checkAndSync.
FailPass(rc) ==
  EndPass([rc EXCEPT !.stats.errors = @ + 1, !.clean = FALSE], FailureResult)

\* checkAndSync() is entered while the service is running: up to the await
\* of the counts.
BeginPass(rc) ==
  [rc EXCEPT !.pc = "count", !.stats.totalChecks = @ + 1,
             !.missingIds = <<>>, !.i = 0, !.synced = 0,
             !.scans = 0, !.writes = 0, !.upserted = {}, !.clean = TRUE,
             !.begun = [missing |-> MongoIdSet(source) \ OsIdSet(target),
                        extra |-> OsIdSet(target) \ MongoIdSet(source)],
             !.passes = @ + 1, !.result = NoResult]

\* ReconciliationService.start(): isRunning, then the first checkAndSync.
ReconStart ==
  /\ ~recon.isRunning
  /\ recon.pc = "idle"
  /\ recon.passes < MaxPasses
  /\ recon' = BeginPass([recon EXCEPT !.isRunning = TRUE, !.starting = TRUE])
  /\ UNCHANGED <<target, faults, itemErrs, reconFrame>>

\* ReconciliationService.stop(): isRunning = false, and clearInterval of
\* this.intervalId when it holds a timer.  A pass in progress goes on.
ReconStop ==
  /\ recon.isRunning
  /\ recon' = [recon EXCEPT !.isRunning = FALSE,
                            !.timers = IF recon.intervalId THEN @ - 1 ELSE @,
                            !.intervalId = FALSE]
  /\ UNCHANGED <<target, faults, itemErrs, reconFrame>>

\* checkAndSync() called by the interval or by POST /check.  (One pass at a
\* time is followed.)
CheckAndSyncCall ==
  /\ recon.pc = "idle"
  /\ recon.passes < MaxPasses
  /\ recon' = IF recon.isRunning THEN BeginPass(recon)
              ELSE [recon EXCEPT !.result = NoResult]
  /\ UNCHANGED <<target, faults, itemErrs, reconFrame>>

\* countDocuments() and getIndexStats() have answered, or one of them failed.
ReconCounted(ok) ==
  LET difference == CountDocuments(source) - DocsCount(target)
      branch == CheckBranch(difference)
  IN
  /\ recon.pc = "count"
  /\ ~ok => faults < SvcFaults
  /\ faults' = IF ok THEN faults ELSE faults + 1
  /\ recon' = IF ~ok THEN FailPass(recon)
              ELSE IF branch = "cheap" THEN EndPass(recon, CheapResult)
              ELSE IF branch = "repair" THEN [recon EXCEPT !.pc = "scan"]
              ELSE EndPass(recon, OrphanResult(difference))
  /\ uncaught' = Escapes(uncaught, "reconciliation", ok)
  /\ UNCHANGED <<target, itemErrs, reconFrame0>>

\* syncMissingDocuments: the identifier scans of both stores have answered,
\* or one of them failed.
ReconScanned(ok) ==
  LET missingIds == MissingIds(source, target) IN
  /\ recon.pc = "scan"
  /\ ~ok => faults < SvcFaults
  /\ faults' = IF ok THEN faults ELSE faults + 1
  /\ recon' = IF ~ok THEN FailPass(recon)
              ELSE IF Len(missingIds) = 0
              THEN EndPass([recon EXCEPT !.scans = @ + 2], SyncResult(0, 0))
              ELSE [recon EXCEPT !.pc = "batch", !.scans = @ + 2,
                                 !.missingIds = missingIds, !.i = 0, !.synced = 0]
  /\ uncaught' = Escapes(uncaught, "reconciliation", ok)
  /\ UNCHANGED <<target, itemErrs, reconFrame0>>

\* syncDocumentsByIds: one batch (find, bulkIndex, delay); ok is FALSE when
\* find or bulkIndex throws, bad are the items bulkIndex got back in error.
ReconBatch(ok, bad) ==
  LET documents == FindByIds(source, BatchIds(recon.missingIds, recon.i))
      wrote == ok /\ Len(documents) > 0
      synced == IF wrote THEN recon.synced + Len(documents) ELSE recon.synced
      i == recon.i + reconBatch
      rc == [recon EXCEPT !.i = i, !.synced = synced,
                          !.writes = IF wrote THEN @ + 1 ELSE @,
                          !.upserted = IF wrote
                                       THEN @ \cup {ToString(documents[n]._id) :
                                                      n \in 1..Len(documents)}
                                       ELSE @,
                          !.clean = @ /\ ok /\ bad = {}]
  IN
  /\ recon.pc = "batch"
  /\ bad \subseteq 1..Len(documents)
  /\ ~ok => bad = {} /\ faults < SvcFaults
  /\ itemErrs + Cardinality(bad) <= MaxItemErrs
  /\ faults' = IF ok THEN faults ELSE faults + 1
  /\ itemErrs' = itemErrs + Cardinality(bad)
  /\ target' = IF wrote THEN BulkApply(target, documents, bad, 1) ELSE target
  /\ recon' = IF i < Len(recon.missingIds) THEN rc
              ELSE EndPass([rc EXCEPT !.stats.totalSyncs = @ + 1,
                                      !.stats.documentsSynced = @ + synced],
                           SyncResult(synced, Len(recon.missingIds)))
  /\ UNCHANGED reconFrame

\* ------------------------------------------------- DocumentCountMonitor
driftFrame0 == <<bpVars, lastReq, escaped, timerOn, target, syncVars, flushPc, stopPc,
                 proc, fed, added, faults, itemErrs, starts, trace, source, recon, restart,
                 restVars>>
driftFrame == <<driftFrame0, uncaught>>

\* Math.abs(mongoCount - opensearchCount)
Difference(m, o) == IF m >= o THEN m - o ELSE o - m

\* A check that looks at the threshold first, and triggers from it on.
CheckOutcomeThresholdFirst(m, o, enabled, threshold) ==
  IF enabled /\ Difference(m, o) >= threshold THEN "trigger"
  ELSE IF Difference(m, o) = 0 THEN "match"
  ELSE "mismatch"
\* A check that triggers from the threshold on.
CheckOutcomeAtThreshold(m, o, enabled, threshold) ==
  IF Difference(m, o) = 0 THEN "match"
  ELSE IF enabled /\ Difference(m, o) >= threshold THEN "trigger"
  ELSE "mismatch"
\* performCountCheck after the counts: a match, a mismatch, or a mismatch
\* that triggers the auto-sync.
CheckOutcome(m, o, enabled, threshold) ==
  IF Difference(m, o) = 0 THEN "match"
  ELSE IF enabled /\ Difference(m, o) > threshold THEN "trigger"
  ELSE "mismatch"

\* setAutoSyncEnabled / setAutoSyncThreshold.
SetAutoSync(enabled, threshold) ==
  /\ dcm.pc = "idle"
  /\ dcm' = [dcm EXCEPT !.autoSyncEnabled = enabled, !.autoSyncThreshold = threshold]
  /\ UNCHANGED <<dcmRunning, driftFrame>>

\* stopMonitoring(): the client is closed unless the monitor is not running
\* (the warning and the return of its first lines).
StopMonitoringCloses(running) == running

\* triggerManualCheck after its performCountCheck has returned:
\* if (!this.isRunning) await this.stopMonitoring().
AfterCheck(d, running) ==
  IF d.last.caller = "manual" /\ ~running /\ StopMonitoringCloses(running)
  THEN [d EXCEPT !.clients = @ - 1]
  ELSE d

\* performCountCheck() is entered: by the interval or the initial timeout
\* of a running monitor, or by a manual check, which calls initialize()
\* first when the monitor is not running.  (One check at a time is followed.)
CountCheckCall(caller) ==
  /\ dcm.pc = "idle"
  /\ dcm.begun < MaxChecks
  /\ caller \in {"interval", "initial"} => dcm.interval
  /\ dcm' = [dcm EXCEPT !.pc = "counting", !.begun = @ + 1,
                        !.clients = IF caller = "manual" /\ ~dcmRunning THEN @ + 1 ELSE @,
                        !.last = [NoCheck EXCEPT !.caller = caller,
                                                 !.mism0 = dcm.stats.mismatchesDetected,
                                                 !.calls0 = dcm.calls]]
  /\ UNCHANGED <<dcmRunning, driftFrame>>

\* The verification timeout set after a successful auto-sync fires.
VerifyFires ==
  /\ dcm.pc = "idle"
  /\ dcm.verify > 0
  /\ dcm.begun < MaxChecks
  /\ dcm' = [dcm EXCEPT !.pc = "counting", !.begun = @ + 1, !.verify = @ - 1,
                        !.last = [NoCheck EXCEPT !.caller = "verify",
                                                 !.mism0 = dcm.stats.mismatchesDetected,
                                                 !.calls0 = dcm.calls]]
  /\ UNCHANGED <<dcmRunning, driftFrame>>

\* Both counts have answered with m and o (then the mismatch diagnostics,
\* whose failures are absorbed), or one of them failed.
Counted(ok, m, o) ==
  LET what == CheckOutcome(m, o, dcm.autoSyncEnabled, dcm.autoSyncThreshold)
      seen == [dcm.last EXCEPT !.mongodb = m, !.opensearch = o,
                               !.difference = Difference(m, o),
                               !.isMatch = (Difference(m, o) = 0),
                               !.enabled = dcm.autoSyncEnabled,
                               !.threshold = dcm.autoSyncThreshold]
  IN
  /\ dcm.pc = "counting"
  /\ dcm' =
       IF ~ok THEN [dcm EXCEPT !.pc = "idle", !.last.outcome = "threw"]
       ELSE IF what = "match"
       THEN AfterCheck([dcm EXCEPT !.pc = "idle", !.stats.checksPerformed = @ + 1,
                                   !.last = [seen EXCEPT !.outcome = "returned"]],
                       dcmRunning)
       ELSE IF what = "mismatch"
       THEN AfterCheck([dcm EXCEPT !.pc = "idle", !.stats.checksPerformed = @ + 1,
                                   !.stats.mismatchesDetected = @ + 1,
                                   !.last = [seen EXCEPT !.outcome = "returned"]],
                       dcmRunning)
       ELSE [dcm EXCEPT !.pc = "syncing", !.stats.checksPerformed = @ + 1,
                        !.stats.mismatchesDetected = @ + 1,
                        !.stats.autoSyncTriggered = @ + 1,
                        !.calls = @ + 1,
                        !.last = [seen EXCEPT !.triggered = TRUE]]
  /\ uncaught' = Escapes(uncaught, dcm.last.caller, ok)
  /\ UNCHANGED <<dcmRunning, driftFrame0>>

\* triggerAutoSync: the POST to /api/sync/full-sync has answered (ok: the
\* verification is scheduled) or failed (logged); performCountCheck returns.
FullSyncAnswered(ok) ==
  /\ dcm.pc = "syncing"
  /\ dcm' = AfterCheck([dcm EXCEPT !.pc = "idle",
                                   !.verify = IF ok THEN @ + 1 ELSE @,
                                   !.last.trigOk = ok,
                                   !.last.outcome = "returned"],
                       dcmRunning)
  /\ UNCHANGED <<dcmRunning, driftFrame>>

\* ------------------------------------------------------------- Server
httpFrame == <<bpVars, lastReq, escaped, timerOn, target, syncVars, ctlVars, fed, added,
               faults, itemErrs, starts, trace, source, recon, dcm, restart, fsync,
               startRes, uncaught>>

\* Server.start() after syncService.initialize(): the reconciliation
\* service is constructed, its router is registered with app.use, the
\* server listens.
ServerStart ==
  /\ Live
  /\ timerOn
  /\ ~http.listening
  /\ http' = [http EXCEPT !.reconciliationService = TRUE,
                          !.layers = Append(@, "reconciliation"),
                          !.listening = TRUE]
  /\ UNCHANGED httpFrame

\* A request arrives and is answered.
Request(req) ==
  /\ Live
  /\ http.listening
  /\ http.served < MaxRequests
  /\ http' = [http EXCEPT !.served = @ + 1, !.request = req,
                          !.answer = Dispatch(http.layers, req,
                                              http.reconciliationService, 1)]
  /\ UNCHANGED httpFrame

\* ------------------------------------------------------ performFullSync
fullFrame == <<bpVars, lastReq, escaped, timerOn, syncVars, ctlVars, fed, added,
               starts, trace, source, recon, dcm, restart, startRes, http, uncaught>>

\* A page that begins one document too far.
PageSkipsOneMore(s, skip) ==
  LET all == Ascending(SourceIds(s))
      ids == SubSeq(all, skip + 2, Min(skip + 1 + fullBatch, Len(all)))
  IN [n \in 1..Len(ids) |-> s[ids[n]]]

\* findDocuments({}, { limit: batchSize, skip }): the page of the collection
\* after the first skip documents.
Page(s, skip) ==
  LET all == Ascending(SourceIds(s))
      ids == SubSeq(all, skip + 1, Min(skip + fullBatch, Len(all)))
  IN [n \in 1..Len(ids) |-> s[ids[n]]]

\* n / d to the nearest integer, halves away from zero (d > 0).
Rounded(n, d) ==
  IF n >= 0 THEN (2 * n + d) \div (2 * d) ELSE 0 - ((2 * (0 - n) + d) \div (2 * d))
\* parseFloat(((totalProcessed - totalErrors) / totalProcessed * 100)
\* .toFixed(2)), or 0 when nothing was processed; in hundredths of a percent.
SuccessRate(totalProcessed, totalErrors) ==
  IF totalProcessed > 0
  THEN Rounded((totalProcessed - totalErrors) * 10000, totalProcessed)
  ELSE 0

\* A run that gives up at the first page whose bulkIndex throws.
PageFailedAborts(f) ==
  [f EXCEPT !.pc = "idle", !.outcome = "threw", !.threwAt = "write"]
\* catch of the page: the page size goes to totalErrors; then skip moves on
\* and the run waits its 200 ms.
PageFailed(f) ==
  [f EXCEPT !.pc = "delay",
            !.totalErrors = @ + Len(f.documents),
            !.failed = @ + Len(f.documents),
            !.skip = @ + Len(f.documents)]

\* POST /api/sync/full-sync (also what the auto-sync of the count monitor
\* posts): performFullSync() up to its countDocuments.
FullSyncCall ==
  /\ fsync.pc = "idle"
  /\ fsync.runs < MaxRuns
  /\ fsync' = [IdleFullSync EXCEPT !.pc = "count", !.runs = fsync.runs + 1]
  /\ UNCHANGED <<fullFrame, target, faults, itemErrs>>

\* countDocuments has answered, or failed (the outer catch rethrows).
FullCounted(ok) ==
  /\ fsync.pc = "count"
  /\ ~ok => faults < MaxFaults
  /\ faults' = IF ok THEN faults ELSE faults + 1
  /\ fsync' = IF ok THEN [fsync EXCEPT !.pc = "fetch"]
              ELSE [fsync EXCEPT !.pc = "idle", !.outcome = "threw", !.threwAt = "count"]
  /\ UNCHANGED <<fullFrame, target, itemErrs>>

\* findDocuments has answered with the page at skip: an empty page ends the
\* loop and the run returns its result; or it failed (the outer catch
\* rethrows).
FullFetched(ok) ==
  LET documents == Page(source, fsync.skip) IN
  /\ fsync.pc = "fetch"
  /\ ~ok => faults < MaxFaults
  /\ faults' = IF ok THEN faults ELSE faults + 1
  /\ fsync' =
       IF ~ok THEN [fsync EXCEPT !.pc = "idle", !.outcome = "threw", !.threwAt = "fetch"]
       ELSE IF Len(documents) = 0
       THEN [fsync EXCEPT !.pc = "idle", !.outcome = "returned",
                          !.result = [success |-> TRUE,
                                      processed |-> fsync.totalProcessed,
                                      errors |-> fsync.totalErrors,
                                      versionConflicts |-> fsync.totalVersionConflicts,
                                      successRate |-> SuccessRate(fsync.totalProcessed,
                                                                  fsync.totalErrors)]]
       ELSE [fsync EXCEPT !.pc = "write", !.documents = documents, !.pages = @ + 1,
                          !.handed = @ \o [n \in 1..Len(documents) |->
                                             ToString(documents[n]._id)]]
  /\ UNCHANGED <<fullFrame, target, itemErrs>>

\* bulkIndex(documents) of the page has answered (the items at bad in
\* error, those at conflicts with a version conflict), or thrown.
FullWritten(ok, bad, conflicts) ==
  LET result == BulkIndexResult(fsync.documents, bad, conflicts) IN
  /\ fsync.pc = "write"
  /\ bad \subseteq 1..Len(fsync.documents)
  /\ conflicts \subseteq bad
  /\ ~ok => bad = {} /\ faults < MaxFaults
  /\ itemErrs + Cardinality(bad) <= MaxItemErrs
  /\ faults' = IF ok THEN faults ELSE faults + 1
  /\ itemErrs' = itemErrs + Cardinality(bad)
  /\ target' = IF ok THEN BulkApply(target, fsync.documents, bad, 1) ELSE target
  /\ fsync' =
       IF ok
       THEN [fsync EXCEPT !.pc = "delay",
                          !.totalProcessed = @ + Len(fsync.documents),
                          !.totalErrors = @ + result.errors,
                          !.hard = @ + result.errors,
                          !.totalVersionConflicts = @ + result.versionConflicts,
                          !.skip = @ + Len(fsync.documents)]
       ELSE PageFailed(fsync)
  /\ UNCHANGED fullFrame

\* The 200 ms between pages are over.
FullDelayDone ==
  /\ fsync.pc = "delay"
  /\ fsync' = [fsync EXCEPT !.pc = "fetch"]
  /\ UNCHANGED <<fullFrame, target, faults, itemErrs>>

\* --------------------------------------------------------- specification
\* The steps of a processBatch invocation in progress.
PassStep ==
  \E o \in Owners :
     \/ \E bad \in SUBSET (1..batchSize) : BulkResponse(o, bad)
     \/ BulkThrow(o)
     \/ \E resp \in {"ok", "404", "error"} : DeleteResponse(o, resp)
     \/ BackoffDone(o)

\* The steps of an invocation in progress whose adapter calls all succeed.
PassOkStep ==
  \E o \in Owners :
     \/ BulkResponse(o, {})
     \/ \E resp \in {"ok", "404"} : DeleteResponse(o, resp)

\* The Change Feed Consumer with the processor and the target.
Next ==
  \/ Initialize
  \/ Start
  \/ \E ev \in FeedEvents : Change(ev)
  \/ Tick
  \/ FlushCall
  \/ PassStep /\ faults' <= SvcFaults
  \/ StopCall
  \/ StopClosed("stopR")

Spec == Init /\ [][Next]_vars

\* The service receiving SIGTERM / SIGINT.
ShutdownEvents == {Event("insert", TRUE, Doc(1, "a", Undef)),
                   Event("delete", FALSE, DocKey(1))}
NextShutdown ==
  \/ Initialize
  \/ Start
  \/ \E ev \in ShutdownEvents : Change(ev)
  \/ Tick
  \/ PassOkStep
  \/ StartMonitoring
  \/ Signal
  \/ StopClosed("stopS")
  \/ MonitorClosed
  \/ DisconnectDone

SpecShutdown == Init /\ [][NextShutdown]_vars

\* The Batch Processor alone, driven through its public methods.
NextBP ==
  \/ Initialize
  \/ \E item \in DirectOps : AddDocumentCall(item)
  \/ \E docs \in DirectLists, operation \in {"upsert", "delete"} :
       AddDocumentsCall(docs, operation)
  \/ ProcessBatchCall
  \/ Tick
  \/ FlushCall
  \/ PassStep

SpecBP == Init /\ [][NextBP]_vars

\* The same, with every adapter call answered and every backoff timeout
\* fired as long as the event loop runs.
SpecBPFair == SpecBP /\ WF_vars(PassStep)

\* The Target Adapter alone, on any index contents it can have produced.
InitAdapter == Constructed /\ target \in IndexStates /\ source = EmptySource
AdapterLists == {<<>>} \cup {<<d>> : d \in AllDocs}
                \cup {<<Doc(1, "a", Undef), Doc(2, "a", Undef)>>}
NextAdapter ==
  \/ \E docs \in AdapterLists, resp \in {"none", "ok", "error"}, bad \in SUBSET {1, 2} :
       \E conflicts \in SUBSET bad : BulkIndexCall(docs, resp, bad, conflicts)
  \/ \E k \in Keys, resp \in {"ok", "404", "error"} : DeleteDocumentCall(k, resp)

SpecAdapter == InitAdapter /\ [][NextAdapter]_vars

\* The Reconciliation Engine on stores that nothing else touches.
InitRecon == Constructed /\ source \in SourceStates /\ target \in IndexStates
NextRecon ==
  \/ ReconStart
  \/ ReconStop
  \/ CheckAndSyncCall
  \/ \E ok \in BOOLEAN : ReconCounted(ok)
  \/ \E ok \in BOOLEAN : ReconScanned(ok)
  \/ \E ok \in BOOLEAN, bad \in SUBSET (1..reconBatch) : ReconBatch(ok, bad)

SpecRecon == InitRecon /\ [][NextRecon]_vars

\* The Drift Detector, reading whatever counts the two stores report.
NextDrift ==
  \/ Initialize
  \/ StartMonitoring
  \/ \E enabled \in BOOLEAN, threshold \in 0..MaxThreshold : SetAutoSync(enabled, threshold)
  \/ \E caller \in {"interval", "initial", "manual"} : CountCheckCall(caller)
  \/ VerifyFires
  \/ \E ok \in BOOLEAN, m \in 0..MaxCount, o \in 0..MaxCount : Counted(ok, m, o)
  \/ \E ok \in BOOLEAN : FullSyncAnswered(ok)

SpecDrift == Init /\ [][NextDrift]_vars

\* The Change Feed Consumer on a feed that fails.  The restart timeout and
\* the completion of close() are events the event loop delivers whenever it
\* runs.
RestartEvents == ShutdownEvents \cup {Event("update", FALSE, DocKey(2))}
NextFeed ==
  \/ Initialize
  \/ Start
  \/ \E ev \in RestartEvents : Change(ev)
  \/ Tick
  \/ PassOkStep
  \/ FeedError
  \/ RestartTimerFires
  \/ RestartClosed
  \/ StopCall
  \/ StopClosed("stopR")

SpecFeed == Init /\ [][NextFeed]_vars /\ WF_vars(RestartTimerFires) /\ WF_vars(RestartClosed)

\* The Change Feed Consumer and the Drift Detector with start calls that
\* fail.
NextStart ==
  \/ Initialize
  \/ Start
  \/ StartFails
  \/ StartAlready
  \/ \E ev \in ShutdownEvents : Change(ev)
  \/ Tick
  \/ PassOkStep
  \/ StopCall
  \/ StopClosed("stopR")
  \/ StartMonitoring
  \/ StartMonitoringFails
  \/ StartMonitoringAlready

SpecStart == Init /\ [][NextStart]_vars

\* The processor fed one operation at a time, with its periodic tick.  The
\* interval timer keeps firing, every adapter call is answered and every
\* backoff timeout fires; the adapter fails MaxFaults times at most.
AdapterStep == PassStep /\ faults' <= MaxFaults
NextTick ==
  \/ Initialize
  \/ \E item \in DirectOps : AddDocumentCall(item)
  \/ Tick
  \/ AdapterStep

SpecTick == Init /\ [][NextTick]_vars /\ WF_vars(Tick) /\ WF_vars(AdapterStep)

\* The timers of the running server over backends that fail: the periodic
\* tick of the processor, the restart timeout of the feed, the count
\* checks, the reconciliation passes.  The four share no state but the
\* stores, so a behaviour follows the timers of one of them: those of one
\* fire while the three others have not begun.
FlushIdle == added = 0
FeedIdle == restart.errs = 0
DriftIdle == dcm.begun = 0
ReconIdle == recon.passes = 0 /\ ~recon.isRunning

InitTimers ==
  /\ Constructed
  /\ target = EmptyTarget
  /\ source \in {s \in SourceStates : CountDocuments(s) = 1}
FlushTimers ==
  \/ \E item \in DirectOps : AddDocumentCall(item)
  \/ Tick
  \/ PassStep /\ faults' <= MaxFaults
FeedTimers ==
  \/ FeedError
  \/ RestartTimerFires
  \/ RestartClosed
DriftTimers ==
  \/ \E caller \in {"interval", "initial"} : CountCheckCall(caller)
  \/ VerifyFires
  \/ \E ok \in BOOLEAN, m \in 0..MaxCount, o \in 0..MaxCount : Counted(ok, m, o)
  \/ \E ok \in BOOLEAN : FullSyncAnswered(ok)
ReconTimers ==
  \/ ReconStart
  \/ CheckAndSyncCall
  \/ \E ok \in BOOLEAN : ReconCounted(ok)
  \/ \E ok \in BOOLEAN : ReconScanned(ok)
  \/ \E ok \in BOOLEAN : ReconBatch(ok, {})
NextTimers ==
  \/ Initialize
  \/ Start
  \/ StartMonitoring
  \/ FlushTimers /\ FeedIdle /\ DriftIdle /\ ReconIdle
  \/ FeedTimers /\ FlushIdle /\ DriftIdle /\ ReconIdle
  \/ DriftTimers /\ FlushIdle /\ FeedIdle /\ ReconIdle
  \/ ReconTimers /\ FlushIdle /\ FeedIdle /\ DriftIdle

SpecTimers == InitTimers /\ [][NextTimers]_vars

\* The HTTP server from its start on.
NextRoutes ==
  \/ Initialize
  \/ ServerStart
  \/ Start
  \/ StartMonitoring
  \/ \E req \in Requests : Request(req)

SpecRoutes == Init /\ [][NextRoutes]_vars

\* Full Sync runs over stores that nothing else touches.
NextFull ==
  \/ FullSyncCall
  \/ \E ok \in BOOLEAN : FullCounted(ok)
  \/ \E ok \in BOOLEAN : FullFetched(ok)
  \/ \E ok \in BOOLEAN, bad \in SUBSET (1..fullBatch) :
       \E conflicts \in SUBSET bad : FullWritten(ok, bad, conflicts)
  \/ FullDelayDone

SpecFull == InitRecon /\ [][NextFull]_vars

\* A run in progress goes on: every backend call is answered and the delay
\* between pages ends.
FullStep ==
  \/ \E ok \in BOOLEAN : FullCounted(ok)
  \/ \E ok \in BOOLEAN : FullFetched(ok)
  \/ \E ok \in BOOLEAN, bad \in SUBSET (1..fullBatch) :
       \E conflicts \in SUBSET bad : FullWritten(ok, bad, conflicts)
  \/ FullDelayDone
SpecFullFair == SpecFull /\ WF_vars(FullStep)

\* ------------------------------------------------------------ properties
ActivePasses == {o \in Owners : pass[o].pc # "idle"}

\* C1 (batch bound).  Every flush pass detaches at least 1 and at most
\* batchSize operations from the head of the queue, so the upserts it sends
\* in one bulkIndex call are never more than batchSize and each delete it
\* issues is one of its batch; a processBatch() requested while the queue
\* is empty makes no adapter call and changes no counter.
C1_Bounded ==
  \A o \in Owners : pass[o].pc # "idle" =>
     /\ Len(pass[o].batch) \in 1..batchSize
     /\ Len(Documents(pass[o].batch)) <= batchSize
     /\ pass[o].pc = "bulk" => Len(Documents(pass[o].batch)) >= 1
     /\ pass[o].pc = "delete" => pass[o].delIdx \in 1..Len(DeleteIds(pass[o].batch))
C1_EmptyRequest ==
  (queue = <<>> /\ lastReq' # lastReq) =>
     /\ lastReq' = "noop"
     /\ UNCHANGED <<queue, processing, stats, pass, target, faults, itemErrs>>
C1_BatchBound == []C1_Bounded /\ [][C1_EmptyRequest]_vars
\* More than batchSize operations were pending: the pass took batchSize of
\* them and left the rest queued; a request on the empty queue was made too.
C1_Witness ==
  /\ \E o \in Owners : pass[o].pc = "bulk" /\ Len(pass[o].batch) = batchSize
  /\ Len(queue) > 0
  /\ lastReq = "noop"

\* C2 (single flush).  At most one flush pass is active at any time, under
\* every interleaving of threshold crossings in addDocument / addDocuments,
\* timer ticks, direct processBatch() requests and flush() calls; the
\* processing flag is up exactly while a pass is active.
C2_SingleFlush ==
  /\ Cardinality(ActivePasses) <= 1
  /\ processing <=> ActivePasses # {}
\* A pass is active while a full batch waits in the queue: the additions
\* that crossed the threshold during the pass did not start a second one.
C2_Witness ==
  /\ ActivePasses # {}
  /\ Len(queue) >= batchSize

\* C3 (flush during a pass).  A flush() that arrives while a pass is active
\* is a no-op that returns: at the end of the turn in which it was called it
\* is not left running.
C3_FlushDuringPassReturns ==
  [][(processing /\ flushPc = "idle") => flushPc' = "idle"]_vars

\* C4 (retry exhaustion).  In a pass whose adapter call fails: before the
\* third attempt the pass backs off and tries again, touching neither the
\* queue nor the counters; at the third attempt it puts the whole batch
\* back at the head of the queue, adds the batch size to errors, leaves
\* processed as it was, and no exception leaves processBatch or flush().
\* When every call of the pass failed, that is after exactly maxRetries
\* calls.
C4_FailedCall(o) ==
  (pass[o].pc \in {"bulk", "delete"} /\ faults' = faults + 1) =>
     /\ pass[o].attempt \in 1..maxRetries
     /\ pass[o].oks = 0 => pass[o].calls = pass[o].attempt
     /\ IF pass[o].attempt < maxRetries
        THEN /\ pass'[o] = [pass[o] EXCEPT !.pc = "backoff"]
             /\ UNCHANGED <<queue, stats>>
        ELSE /\ stats'.errors = stats.errors + Len(pass[o].batch)
             /\ stats'.processed = stats.processed
             /\ pass'[o].batch \o queue' = pass[o].batch \o queue
             /\ pass'[o].pc = "idle" => ~processing'
     /\ ~escaped'
C4_RetryExhaustion == [][\A o \in Owners : C4_FailedCall(o)]_vars
\* A full batch failed maxRetries times, nothing else was ever processed,
\* and the batch is back in the queue.
C4_Witness ==
  /\ faults = maxRetries
  /\ stats = [processed |-> 0, errors |-> batchSize]
  /\ Len(queue) >= batchSize
  /\ ~processing
  /\ ~escaped

\* Nothing is queued or in flight.
Quiescent == queue = <<>> /\ ActivePasses = {}
KeyOf(item) == ToString(item.document._id)
FedAt(k) == {n \in 1..Len(fed) : KeyOf(fed[n].op) = k}
LastFed(k) == fed[CHOOSE n \in FedAt(k) : \A m \in FedAt(k) : m <= n].op
\* The record a document alone produces.
Image(d) == DocAsUpsert(Absent, PartialDoc(d))

\* C5 (per-identifier ordering).  Once everything the feed delivered has
\* been applied without any adapter failure, the target is, for every
\* identifier, in the state of the last operation delivered for it: the
\* record is there after an upsert and gone after a delete.
C5_PerIdOrder ==
  (Quiescent /\ faults = 0 /\ itemErrs = 0) =>
     \A k \in Keys : FedAt(k) # {} =>
        (target[k].present <=> LastFed(k).operation = "upsert")

\* C6 (ordering per id for updates).  When Update(X, v1) and then
\* Update(X, v2) are all the feed delivered, both before any flush pass
\* began, then once the queue has been flushed (with or without a failed
\* and retried attempt) the target holds v2 for X.
C6_UpdateOrder ==
  (/\ Quiescent
   /\ itemErrs = 0
   /\ Len(fed) = 2
   /\ \A n \in 1..2 : fed[n].op.operation = "upsert" /\ ~fed[n].late
   /\ KeyOf(fed[1].op) = KeyOf(fed[2].op))
  => target[KeyOf(fed[2].op)] = Image(fed[2].op.document)

\* C7 (clean-shutdown drain).  When the stop() of a running consumer
\* returns, the queue is empty and no detached batch is still waiting for
\* the adapter.
C7_StopDrains ==
  [][(stopPc["stopR"] # "idle" /\ stopPc'["stopR"] = "idle")
       => (queue' = <<>> /\ \A o \in Owners : pass'[o].pc = "idle")]_vars

\* C8 (no exit before stop).  After SIGTERM or SIGINT the process has not
\* exited while the stop() of gracefulShutdown is still closing the feed or
\* flushing, nor with an operation still queued or in flight.
C8_NoExitBeforeStop ==
  Exited => /\ stopPc["stopS"] = "idle"
            /\ queue = <<>>
            /\ ActivePasses = {}

\* C9 (idempotent upsert).  On every index contents and for every document:
\* a bulkIndex of the document writes the record under the key of its _id
\* and no other record, and a second bulkIndex of the same document leaves
\* the index exactly as the first one left it.
C9_IdempotentUpsert ==
  (/\ trace # <<>>
   /\ trace[1].call = "bulkIndex"
   /\ Len(trace[1].docs) = 1
   /\ trace[1].resp = "ok" /\ trace[1].bad = {})
  => LET d == trace[1].docs[1]
         k == ToString(d._id)
     IN /\ trace[1].outcome = "success"
        /\ target[k].present /\ target[k].mongo_id = k
        /\ \A j \in Keys \ {k} : target[j] = trace[1].before[j]
        /\ trace[1].repeat => target = trace[1].before
\* The same document was applied twice in a row, to an index that did not
\* hold it before.
C9_Witness ==
  /\ trace # <<>>
  /\ trace[1].call = "bulkIndex" /\ trace[1].repeat
  /\ trace[1].resp = "ok" /\ trace[1].bad = {}
  /\ trace[1].docs = <<Doc(1, "a", "t")>>
  /\ target["1"] = Image(Doc(1, "a", "t"))
  /\ ~target["2"].present

\* C10 (delete is idempotent).  deleteDocument answered with not-found
\* returns success and leaves the index unchanged; answered with any other
\* failure it throws; answered normally it returns success with the record
\* gone.
C10_DeleteOutcome ==
  (trace # <<>> /\ trace[1].call = "deleteDocument") =>
     LET e == trace[1] IN
     /\ e.resp = "404" => /\ e.outcome = "success"
                          /\ target = e.before
                          /\ ~target[e.key].present
     /\ e.resp = "error" => e.outcome = "throw" /\ target = e.before
     /\ e.resp = "ok" => e.outcome = "success" /\ ~target[e.key].present
\* A record was deleted and then deleted again: the second call found
\* nothing and reported success.
C10_Witness ==
  /\ trace # <<>>
  /\ trace[1].call = "deleteDocument" /\ trace[1].repeat
  /\ trace[1].resp = "404"
  /\ trace[1].outcome = "success"

\* A checkAndSync pass has returned a result (it ran, and did not fail).
PassReturned == recon.pc = "idle" /\ recon.result.kind \notin {"none", "failed"}
\* The source identifiers the target does not hold.
MissingNow == MongoIdSet(source) \ OsIdSet(target)

C12_GapRepair ==
  (/\ PassReturned
   /\ recon.clean
   /\ recon.begun.extra = {}
   /\ recon.begun.missing # {})
  => /\ recon.result.kind = "synced"
     /\ recon.result.missingCount = Cardinality(recon.begun.missing)
     /\ recon.result.synced = Cardinality(recon.begun.missing)
     /\ CountDocuments(source) - DocsCount(target) = 0
     /\ MissingNow = {}
\* Two documents were missing and both were synced, one batch each.
C12_Witness ==
  /\ PassReturned /\ recon.clean
  /\ recon.begun = [missing |-> Keys, extra |-> {}]
  /\ recon.result.synced = 2 /\ recon.result.missingCount = 2
  /\ recon.writes >= 1

\* C13 (cheap path).  When the two counts are equal at the start of a pass,
\* checkAndSync reports inSync with difference 0 and synced 0, scans the
\* identifiers of neither store and writes nothing to the target.
C13_CheapPath ==
  Cardinality(recon.begun.missing) = Cardinality(recon.begun.extra) =>
     /\ recon.pc \in {"idle", "count"}
     /\ recon.scans = 0 /\ recon.writes = 0
     /\ PassReturned =>
          /\ recon.result.kind = "cheap"
          /\ recon.result.inSync /\ recon.result.success
          /\ recon.result.difference = 0 /\ recon.result.synced = 0
\* The counts were equal although the identifiers differ, and the pass took
\* the cheap path.
C13_Witness ==
  /\ PassReturned
  /\ recon.result.kind = "cheap"
  /\ recon.begun.missing # {}
  /\ DocsCount(target) = 1

\* C14 (one direction).  No step of a reconciliation pass removes a record
\* from the target; and when the target count exceeds the source count the
\* pass scans and writes nothing and reports inSync = false with the
\* number of surplus records.
C14_Orphans ==
  Cardinality(recon.begun.extra) > Cardinality(recon.begun.missing) =>
     /\ recon.pc \in {"idle", "count"}
     /\ recon.writes = 0
     /\ PassReturned =>
          /\ recon.result.kind = "orphans"
          /\ ~recon.result.inSync
          /\ recon.result.synced = 0
          /\ recon.result.orphanedDocs =
               Cardinality(recon.begun.extra) - Cardinality(recon.begun.missing)
C14_NoDelete == \A k \in Keys : target[k].present => target'[k].present
C14_OneDirectional == []C14_Orphans /\ [][C14_NoDelete]_vars
\* The source is empty and the target holds two records: the pass reports
\* two orphans and the records are still there.
C14_Witness ==
  /\ PassReturned
  /\ recon.result.kind = "orphans" /\ recon.result.orphanedDocs = 2
  /\ DocsCount(target) = 2

\* A performCountCheck has gone past its counts.
CheckDecided == dcm.last.outcome = "returned" \/ dcm.pc = "syncing"

\* C15 (drift no-op).  When the two counts are equal, performCountCheck
\* returns isMatch = true with difference 0, does not increment
\* mismatchesDetected and does not trigger a Full Sync, whatever the auto-sync
\* setting and threshold.
C15_DriftNoOp ==
  (dcm.pc # "counting" /\ dcm.last.outcome # "threw" /\ dcm.begun > 0
     /\ dcm.last.mongodb = dcm.last.opensearch) =>
     /\ dcm.pc = "idle"
     /\ dcm.last.outcome = "returned"
     /\ dcm.last.isMatch /\ dcm.last.difference = 0
     /\ ~dcm.last.triggered
     /\ dcm.stats.mismatchesDetected = dcm.last.mism0
     /\ dcm.calls = dcm.last.calls0
\* Equal non-zero counts were read with auto-sync enabled and threshold 0.
C15_Witness ==
  /\ dcm.last.outcome = "returned"
  /\ dcm.last.mongodb = 1 /\ dcm.last.opensearch = 1
  /\ dcm.last.enabled /\ dcm.last.threshold = 0

\* C16 (drift auto-sync trigger).  performCountCheck triggers a Full Sync
\* exactly when auto-sync is enabled and the absolute difference is strictly
\* greater than the threshold; a trigger that fails is absorbed:
\* performCountCheck still returns its result and the detector stays
\* running with its periodic timer scheduled.
C16_TriggerRule ==
  CheckDecided =>
     /\ dcm.last.triggered <=>
          (dcm.last.enabled /\ dcm.last.difference > dcm.last.threshold)
     /\ dcm.calls = dcm.last.calls0 + (IF dcm.last.triggered THEN 1 ELSE 0)
C16_Absorbed ==
  (dcm.pc = "syncing" /\ dcm'.pc # "syncing") =>
     /\ dcm'.pc = "idle"
     /\ dcm'.last.outcome = "returned"
     /\ dcm'.last.difference = dcm.last.difference
     /\ dcmRunning' = dcmRunning
     /\ dcm'.interval = dcm.interval
C16_AutoSyncTrigger == []C16_TriggerRule /\ [][C16_Absorbed]_vars
\* A running detector's check triggered a Full Sync that failed, and the
\* check returned with the timer still set; the difference equal to the
\* threshold has also been seen not to trigger.
C16_Witness ==
  /\ dcm.pc = "idle" /\ dcm.last.outcome = "returned"
  /\ dcm.last.triggered /\ ~dcm.last.trigOk
  /\ dcm.last.difference = 2 /\ dcm.last.threshold = 1
  /\ dcmRunning /\ dcm.interval

\* What a 'change' step has put behind the operations that were queued:
\* the handler's new batch, if its addDocument started a pass, before the
\* queue that is left.
Enqueued ==
  LET all == IF pass'["handler"] # pass["handler"]
             THEN pass'["handler"].batch \o queue'
             ELSE queue'
  IN SubSeq(all, Len(queue) + 1, Len(all))
StoodBefore ==
  LET all == IF pass'["handler"] # pass["handler"]
             THEN pass'["handler"].batch \o queue'
             ELSE queue'
  IN Len(all) >= Len(queue) /\ SubSeq(all, 1, Len(queue)) = queue

\* C17 (change-event translation).  An insert, update or replace event
\* with a full document enqueues exactly one upsert of that document; one
\* without a full document enqueues nothing and is counted as skipped, not
\* as an error; a delete event enqueues exactly one delete that carries
\* only the _id of documentKey.
C17_Post(ev) ==
  /\ StoodBefore
  /\ syncStats'.errors = syncStats.errors
  /\ IF ev.operationType = "delete"
     THEN /\ Enqueued = <<[document |-> [_id |-> ev.documentKey, status |-> Undef,
                                         urlFilterUpdatedAt |-> Undef],
                           operation |-> "delete"]>>
          /\ syncStats'.documentsSkipped = syncStats.documentsSkipped
     ELSE IF ev.hasFull
     THEN /\ Enqueued = <<[document |-> ev.fullDocument, operation |-> "upsert"]>>
          /\ syncStats'.documentsSkipped = syncStats.documentsSkipped
     ELSE /\ Enqueued = <<>>
          /\ syncStats'.documentsSkipped = syncStats.documentsSkipped + 1
C17_Translation == [][\A ev \in FeedEvents : Change(ev) => C17_Post(ev)]_vars
\* The feed has delivered an event without a full document, an upsert and
\* a delete.
C17_Witness ==
  /\ syncStats.documentsSkipped = 1
  /\ \E n \in 1..Len(fed) : fed[n].op.operation = "upsert"
  /\ \E n \in 1..Len(fed) : fed[n].op = Delete(1)

\* The feed of the running consumer is down / is open.
FeedDown == isRunning /\ restart.dead
FeedOpen == ~restart.dead /\ feedsOpen > 0

\* C18 (feed auto-restart).  A feed-level error while the consumer is
\* running is counted as an error and goes no further, the consumer stays
\* running, and the feed is eventually reopened, after the fixed backoff,
\* unless the consumer is stopped first or the event loop no longer runs
\* (Hung: no timeout fires then).
C18_Counted ==
  (restart'.errs # restart.errs) =>
     /\ syncStats'.errors = syncStats.errors + 1
     /\ isRunning' = isRunning
     /\ escaped' = escaped
     /\ restart'.pc = restart.pc                 \* no restart before the timeout
     /\ ~FeedOpen'
C19_Backpressure ==
  [][(pass["handler"].pc # "idle") =>
        /\ \A ev \in FeedEvents : ~Change(ev)
        /\ Len(queue') <= Len(queue)]_vars

\* C20 (one bad document never blocks a batch).  A document of a batch that
\* comes back from the bulk call with a permanent per-document error is
\* counted as an error and dropped, while the rest of the batch is applied
\* and the queue behind it goes on: once no pass is in progress, the errors
\* counter covers every such document.
C20_BadDocumentCounted ==
  (ActivePasses = {} /\ itemErrs > 0) => stats.errors >= itemErrs

\* C21 (full sync page failure).  When the bulk write of one page of a
\* full-sync run fails, the run adds the size of the page to its error count
\* and goes on with the next page: the run does not end by that failure, and
\* the result it returns covers every page of the collection.
C21_PageFailure ==
  /\ fsync.totalErrors = fsync.failed + fsync.hard
  /\ fsync.threwAt # "write"
  /\ fsync.outcome = "returned" =>
       /\ fsync.result.success
       /\ fsync.result.errors = fsync.totalErrors
       /\ fsync.skip = CountDocuments(source)
       /\ fsync.result.processed = CountDocuments(source) - fsync.failed
\* The write of the first of two pages failed, the second page was written
\* and the run returned.
C21_Witness ==
  /\ fsync.outcome = "returned"
  /\ fsync.pages = 2 /\ fsync.failed = 1
  /\ fsync.result.processed = 1 /\ fsync.result.errors = 1
  /\ target["2"].present /\ ~target["1"].present

\* C22 (version conflicts are a statistic).  A bulkIndex whose response
\* carries failed items returns normally with processed equal to the number
\* of documents submitted, and counts every failed item in exactly one of
\* versionConflicts (the version conflicts) and errors (all other failures).
C22_ConflictsCounted ==
  \A n \in 1..Len(trace) :
     (trace[n].call = "bulkIndex" /\ trace[n].resp = "ok" /\ trace[n].bad # {}) =>
        /\ trace[n].outcome = "success"
        /\ trace[n].result.success
        /\ trace[n].result.processed = Len(trace[n].docs)
        /\ trace[n].result.versionConflicts = Cardinality(trace[n].conflicts)
        /\ trace[n].result.errors = Cardinality(trace[n].bad \ trace[n].conflicts)
        /\ trace[n].result.errors + trace[n].result.versionConflicts
             = Cardinality(trace[n].bad)
\* Two documents were submitted; one came back with a version conflict, the
\* other with another error.
C22_Witness ==
  /\ trace # <<>>
  /\ trace[1].call = "bulkIndex" /\ Len(trace[1].docs) = 2
  /\ trace[1].bad = {1, 2} /\ trace[1].conflicts = {2}
  /\ trace[1].result.errors = 1 /\ trace[1].result.versionConflicts = 1

\* C23 (failure to start).  When start() of the Change Feed Consumer or
\* startMonitoring() of the Drift Detector cannot open its feed or
\* connection, the error reaches the caller and the subsystem is not running
\* afterwards; the next start call is therefore attempted, not answered as
\* already running.
C23_NotRunning ==
  /\ startRes.sync = "threw" => ~isRunning
  /\ startRes.monitor = "threw" => ~dcmRunning
C23_Retried ==
  /\ startRes.sync = "threw" => startRes'.sync # "already"
  /\ startRes.monitor = "threw" => startRes'.monitor # "already"
C23_FailureToStart == []C23_NotRunning /\ [][C23_Retried]_vars
\* After a failed start of each, both subsystems were started again and
\* run.
C23_Witness ==
  /\ faults >= 2
  /\ startRes.sync = "returned" /\ isRunning /\ feedsOpen = 1
  /\ startRes.monitor = "returned" /\ dcmRunning /\ dcm.interval

\* C24 (manual reconciliation trigger).  A manually triggered check runs
\* one checkAndSync pass at once and returns a result of the shape of a
\* timer-driven pass, whether the periodic service is started or not: every
\* call of checkAndSync begins a pass.
C24_ManualCheck ==
  [][CheckAndSyncCall => (recon'.pc = "count" /\ recon'.passes = recon.passes + 1)]_vars

\* C25 (reconciliation API reachability).  Once server start has
\* constructed the reconciliation service, a request to start, stop, status
\* or check under /api/reconciliation is answered by the handler of the
\* reconciliation router, not by the 503 guard and not by the catch-all 404.
C25_Reachable ==
  (/\ http.reconciliationService
   /\ http.request.mount = "/api/reconciliation"
   /\ <<http.request.method, http.request.sub>> \in Routes("reconciliation"))
  => http.answer = "reconciliation"

\* C26 (no timer-driven subsystem lets an error escape).  Whatever backend
\* call fails, no exception or rejection leaves processBatch for the
\* periodic tick, and none leaves the callback of the restart timeout, of
\* the scheduled, initial and verification count checks or of the periodic
\* reconciliation pass; a reconciliation pass whose backend call fails ends
\* with the failure result (success false) and one more counted error.
C26_NoEscape == ~escaped /\ uncaught = {}
C26_ReconAbsorbs ==
  (recon.pc \in {"count", "scan"} /\ faults' = faults + 1)
    => (/\ recon'.pc = "idle"
        /\ recon'.result = FailureResult
        /\ ~recon'.result.success
        /\ recon'.stats.errors = recon.stats.errors + 1)
C27_Staleness == (timerOn /\ Len(queue) > 0) ~> (queue = <<>> /\ ~processing)
C27_Witness ==
  /\ pass["timer"].pc # "idle"
  /\ Len(pass["timer"].batch) > 0
  /\ Len(pass["timer"].batch) < batchSize
  /\ queue = <<>>

\* C28 (re-queue keeps queue order).  When a pass fails, its batch goes back
\* to the head of the queue in its original order, in front of the
\* operations that were behind it and of those enqueued while it ran; and
\* at every step the pending operations (the batch in flight, then the
\* queue) only lose a processed batch at the head or gain new operations at
\* the end, so a later operation never precedes an earlier one.
Busy == {o \in Owners : pass[o].pc # "idle"}
InFlight == IF Busy = {} THEN <<>> ELSE pass[CHOOSE o \in Busy : TRUE].batch
Pending == InFlight \o queue
C28_Requeued ==
  stats'.errors > stats.errors =>
     /\ Pending' = Pending
     /\ \A o \in Busy : pass'[o].pc = "idle" => queue' = pass[o].batch \o queue
C28_Fifo ==
  \/ Pending' = Pending
  \/ /\ Len(Pending') > Len(Pending)
     /\ SubSeq(Pending', 1, Len(Pending)) = Pending
  \/ /\ stats'.processed = stats.processed + Len(InFlight)
     /\ Pending = InFlight \o Pending'
C28_RequeueOrder == [][C28_Requeued /\ C28_Fifo]_vars
C28_Witness ==
  /\ stats.errors > 0
  /\ ~processing
  /\ Len(queue) > stats.errors
  /\ queue[1] # queue[Len(queue)]

\* C29 (sub-operation errors are absorbed and counted).  When a repair batch
\* of a reconciliation pass fails, the pass goes on with the remaining
\* batches, the synced count leaves the failed batch out, and the failure
\* is in the error counter of the service once the pass has ended: with
\* every backend failure of a pass counted in faults, the counter equals
\* faults whenever no pass is in progress.
C29_BatchStep ==
  (recon.pc = "batch" /\ faults' = faults + 1) =>
     /\ recon'.synced = recon.synced
     /\ recon'.i = recon.i + reconBatch
     /\ recon'.pc = IF recon'.i < Len(recon.missingIds) THEN "batch" ELSE "idle"
C29_Counted == recon.pc = "idle" => recon.stats.errors = faults
C29_BatchFailure == []C29_Counted /\ [][C29_BatchStep]_vars

\* C30 (reconciliation repairs only what is missing).  What a pass hands to
\* bulkIndex are documents of identifiers that the scan found in the source
\* and not in the target, at most reconBatch of them at a time; a record
\* that is present in the target is left as it is; and a pass all of whose
\* batches were indexed has upserted exactly the difference it began with.
Scanned == {recon.missingIds[n] : n \in 1..Len(recon.missingIds)}
C30_OnlyMissing ==
  /\ recon.upserted \subseteq Scanned
  /\ recon.pc = "batch" => Scanned = MongoIdSet(source) \ (OsIdSet(target) \ recon.upserted)
  /\ (recon.pc = "idle" /\ recon.result.kind = "synced" /\ faults = 0)
       => recon.upserted = recon.begun.missing
C30_Batch ==
  /\ Cardinality(recon'.upserted \ recon.upserted) <= reconBatch
  /\ \A k \in Keys : target[k].present => target'[k] = target[k]
  /\ \A k \in Keys : target'[k] # target[k] => k \in recon'.upserted \ recon.upserted
C30_RepairsOnlyMissing == []C30_OnlyMissing /\ [][recon.pc = "batch" => C30_Batch]_vars
C30_Witness ==
  /\ recon.pc = "idle"
  /\ recon.result.kind = "synced"
  /\ recon.upserted # {}
  /\ OsIdSet(target) \ recon.upserted # {}

\* C31 (full sync terminates and covers the source).  A run of
\* performFullSync over a collection that does not change ends; when no
\* backend call of it failed and no item came back in error, it has given
\* every document of the collection to bulkIndex exactly once, with nothing
\* put in the processor's queue, and it returns processed equal to the
\* number of documents and errors 0.
CleanRun == fsync.outcome = "returned" /\ faults = 0 /\ itemErrs = 0
C31_Covered ==
  /\ queue = <<>> /\ ~processing
  /\ CleanRun =>
       /\ Len(fsync.handed) = CountDocuments(source)
       /\ {fsync.handed[n] : n \in 1..Len(fsync.handed)} = MongoIdSet(source)
       /\ \A k \in MongoIdSet(source) : target[k].present
       /\ fsync.result.processed = CountDocuments(source)
       /\ fsync.result.errors = 0
C31_FullSyncCovers == []C31_Covered /\ (fsync.pc # "idle" ~> fsync.pc = "idle")
C31_Witness ==
  /\ CleanRun
  /\ CountDocuments(source) = 2
  /\ fsync.pages = 2
  /\ fsync.result.processed = 2

\* C32 (a manual count check releases its connection).  When
\* triggerManualCheck has returned on a monitor that is not running, the
\* monitor holds no connected source client.
C32_Released == (dcm.pc = "idle" /\ ~dcmRunning) => dcm.clients = 0

\* C33 (flush() terminates).  Every call to flush() returns later, whether
\* or not a pass is in progress when it is called.
C33_FlushTerminates == (flushPc # "idle") ~> (flushPc = "idle")

\* C34 (feed handle invariant).  At most one change stream is open with the
\* consumer's handlers attached, and none is once the consumer is not
\* running and no close() of a stop() or of a restart is still awaited.
C34_FeedHandles ==
  /\ feedsOpen <= 1
  /\ (/\ ~isRunning
      /\ \A s \in Stoppers : stopPc[s] # "closing"
      /\ restart.pc = "idle")
       => feedsOpen = 0

\* C35 (inSync is truthful).  When a pass has returned inSync = true, every
\* identifier of the source is present in the target.
C35_InSyncTruthful ==
  (recon.pc = "idle" /\ recon.result.inSync) => MongoIdSet(source) \subseteq OsIdSet(target)

\* C36 (no operation is lost or duplicated by the Batch Processor).  At
\* most one batch is in flight, and every operation that was added is
\* either in the queue, or in the batch in flight, or counted in processed:
\* the three add up to the number of operations added.  processed grows
\* only when a pass ends on an adapter call that did not throw, and then by
\* the size of the batch of that pass.
C36_OnePlace ==
  /\ Cardinality(Busy) <= 1
  /\ processing <=> Busy # {}
  /\ added = Len(queue) + Len(InFlight) + stats.processed
C36_ProcessedStep ==
  stats'.processed # stats.processed =>
     /\ faults' = faults
     /\ \E o \in Busy : /\ pass[o].pc \in {"bulk", "delete"}
                        /\ stats'.processed = stats.processed + Len(pass[o].batch)
C37_VerifyEndsChain ==
  (dcm.last.caller = "verify" /\ dcm.last.opensearch > dcm.last.mongodb)
    => ~dcm.last.triggered

\* C38 (full sync result is well-formed).  Whatever pages succeed and fail,
\* the result a full-sync run returns has errors <= processed and a
\* successRate between 0 and 100 percent.
C38_WellFormed ==
  fsync.outcome = "returned" =>
    /\ fsync.result.errors <= fsync.result.processed
    /\ 0 <= fsync.result.successRate
    /\ fsync.result.successRate <= 10000
\* The part of it about errors and processed alone.
C38_ErrorsWithinProcessed ==
  fsync.outcome = "returned" => fsync.result.errors <= fsync.result.processed
\* The part of it about the rate alone.
C38_RateInRange ==
  fsync.outcome = "returned" =>
    (0 <= fsync.result.successRate /\ fsync.result.successRate <= 10000)

\* C39 (reconciliation timer lifecycle).  However start() and stop() of the
\* reconciliation service interleave, a stop() during the first pass of a
\* start() included, there is at most one periodic timer, and there is one
\* only while isRunning is true.
C39_TimerLifecycle ==
  /\ recon.timers <= 1
  /\ recon.timers > 0 => recon.isRunning
\* The part of it about the number of timers alone.
C39_AtMostOneTimer == recon.timers <= 1

\* ------------------------------- the collection changing under a full sync
\* The index that holds the record of every document of the collection.
IndexOf(s) ==
  [k \in Keys |-> IF s[ToObjectId(k)] = NoDoc THEN Absent ELSE Image(s[ToObjectId(k)])]

\* A write to the collection that leaves it s, and the 'change' handler for
\* the event ev the change stream delivers for it.
SourceEvent(ev, s) ==
  /\ Live
  /\ feedsOpen > 0
  /\ added < MaxAdded
  /\ added' = added + 1
  /\ source' = s
  /\ fed' = Append(fed, [op |-> Translate(ev)[1], late |-> EverPassed])
  /\ Add("handler", Translate(ev))
  /\ syncStats' = IF pass'["handler"] = pass["handler"]
                  THEN [syncStats EXCEPT !.documentsProcessed = @ + 1]
                  ELSE syncStats
  /\ UNCHANGED <<stats, lastReq, escaped, timerOn, target, isRunning, changeStream,
                 feedsOpen, flushPc, stopPc, dcmRunning, proc, faults, itemErrs, starts,
                 trace, recon, dcm, restart, moreVars>>

\* A document is deleted from the collection.
SourceDelete(i) ==
  /\ source[i] # NoDoc
  /\ SourceEvent(Event("delete", FALSE, DocKey(i)), [source EXCEPT ![i] = NoDoc])

\* The running service on an index in step with its collection: documents
\* are deleted from the collection, the deletes come through the feed and
\* the processor, and full-sync runs page through the collection meanwhile.
InitRace ==
  /\ Constructed
  /\ source \in {s \in SourceStates : CountDocuments(s) > 0}
  /\ target = IndexOf(source)
NextRace ==
  \/ Initialize
  \/ Start
  \/ \E i \in Ids : SourceDelete(i)
  \/ Tick
  \/ AdapterStep
  \/ FullSyncCall
  \/ \E ok \in BOOLEAN : FullCounted(ok)
  \/ \E ok \in BOOLEAN : FullFetched(ok)
  \/ \E ok \in BOOLEAN, bad \in SUBSET (1..fullBatch), conflicts \in SUBSET (1..fullBatch) :
        FullWritten(ok, bad, conflicts)
  \/ FullDelayDone

SpecRace == InitRace /\ [][NextRace]_vars

\* The document i is gone from the collection and its delete event, the
\* latest the feed delivered for it, has been applied: nothing for its key
\* waits in the queue or is in flight.
DeleteApplied(i) ==
  /\ source[i] = NoDoc
  /\ FedAt(ToString(i)) # {}
  /\ LastFed(ToString(i)) = Delete(i)
  /\ \A n \in 1..Len(Pending) : KeyOf(Pending[n]) # ToString(i)

\* C40 (no resurrection of deleted documents).  Once a document is deleted
\* from the source and its delete event has been applied to the target, no
\* later write of a full-sync page that read the document before the
\* deletion brings the document back into the target.
C40_NoResurrection ==
  \A i \in Ids : DeleteApplied(i) => ~target[ToString(i)].present
\* The same as a step: while the delete stays applied, a step does not
\* create the record.
C40_NoRecreatingStep ==
  [][\A i \in Ids :
       (DeleteApplied(i) /\ ~target[ToString(i)].present /\ source'[i] = NoDoc)
         => ~target'[ToString(i)].present]_vars

====
